---- MODULE Spec2Model ----
(***************************************************************************)
(* TaskScheduler of src/enterprise-platform/app.js (lines 3805-4070).      *)
(*                                                                         *)
(* Task objects live in a heap (heap[k] is the k-th object created); the   *)
(* queues, runningTasks, completedTasks and failedTasks hold references    *)
(* (heap indices).  scheduleLoop is an async function: every loop started  *)
(* by start() is a process whose position pc[l] is the await it is         *)
(* suspended at.  A step of the model runs a loop from one await to the    *)
(* next, as the JavaScript run-to-completion rule does.  Continuations of  *)
(* awaits on already settled promises (microtasks) run before any timer    *)
(* callback, so timers, worker completions and the clock only move when    *)
(* no loop is suspended at such an await.                                  *)
(***************************************************************************)
EXTENDS Integers, Sequences, FiniteSets, Bags, TLC

\* ---------------------------------------------------------------- bounds
MaxTasks == 2      \* scheduleTask calls made by callers
MaxObjs  == 3      \* task objects ever created (submissions + retry copies)
MaxLoops == 2      \* scheduleLoop activations alive at the same time
MaxTime  == 1      \* last value of the clock
MaxTrackerIds  == 2   \* task ids callers pass to the TaskTracker
MaxTrackerObjs == 2   \* task objects createTaskTracker ever makes
MaxPhases      == 3   \* phases the TaskTracker records in all
MaxSensorCalls == 1   \* sensor readings recorded for one tracked task
MaxDate        == 2   \* last value of dateNow
MaxRequests    == 2   \* processUserRequest calls
MaxSubtasks    == 2   \* subtasks planned by all processUserRequest calls of callers
MaxAlertSubtasks == 4 \* subtasks planned by the calls of checkAlertConditions
MaxMs          == 1   \* last millisecond of a date unit that task ids tell apart
MaxWorkflows   == 1   \* workflows createWorkflow makes
MaxExecutions  == 2   \* executeWorkflow calls
MaxExecuted    == 6   \* node executions of one workflow execution
MaxTotalTasks  == 10  \* totalTasks of the performanceMetrics a report is asked for

\* -------------------------------------------------------- program values
priorityOrder_lowFirst == <<"low", "medium", "high", "critical">>
priorityOrder == <<"critical", "high", "medium", "low">>
retryAttempts == 3
TimeUnitMs    == 300001               \* one clock unit, in milliseconds
timeout       == 300000 \div TimeUnitMs

Undefined == "undefined"
NoAgent   == 0                        \* null / no agent assigned
NoTime    == -1                       \* startTime not set

QueueNames == {"critical", "high", "medium", "low", "urgent"}

\* requiredCapabilities of a task: not declared, or a list of capabilities
NoCaps == [declared |-> FALSE, caps |-> {}]
C1Caps == [declared |-> TRUE, caps |-> {"c1"}]

\* what a caller passes to scheduleTask: a priority (one of the four polled
\* levels, a level the dispatcher does not know, or none), maxAttempts
\* (0: none passed) and requiredCapabilities
TaskInput(pr, m, rc) == [priority |-> pr, maxAttempts |-> m, requiredCapabilities |-> rc]
TaskInputs ==
    { TaskInput("critical", 1, NoCaps),
      TaskInput("high", 0, NoCaps),
      TaskInput("high", 3, C1Caps),
      TaskInput("low", 1, C1Caps),
      TaskInput("urgent", 0, NoCaps),
      TaskInput(Undefined, 1, NoCaps) }

\* window.platform.agents (the scheduler only reads it) and the
\* schedulerConfig of a deployment (the constructor's limits are 50 and 5)
Agent(st, ld, cp) == [status |-> st, load |-> ld, capabilities |-> cp]
Deployment(mc, mpa, ags) ==
    [config |-> [maxConcurrentTasks |-> mc, maxTasksPerAgent |-> mpa], agents |-> ags]
Deployments ==
    { Deployment(1, 1, << Agent("busy", 0, {"c1"}), Agent("ready", 1, {"c1"}) >>),
      Deployment(1, 1, << Agent("ready", 0, {}) >>),
      Deployment(2, 1, << Agent("ready", 0, {"c1"}) >>),
      Deployment(2, 2, << Agent("ready", 1, {"c1"}), Agent("ready", 0, {}) >>) }

Loops == 1..MaxLoops

VARIABLES
    isRunning,        \* this.isRunning
    queues,           \* this.queues: queue name -> sequence of task objects
    runningTasks,     \* this.runningTasks: Map id -> object, insertion order
    completedTasks,   \* this.completedTasks
    failedTasks,      \* this.failedTasks
    heap,             \* the task objects
    retryTimers,      \* pending setTimeout callbacks of handleTaskFailure
    schedulerConfig,  \* this.schedulerConfig
    agents,           \* window.platform.agents
    now,              \* Date.now(), in clock units
    pc,               \* position of every scheduleLoop activation
    cur,              \* locals of every scheduleLoop activation
    nextId,           \* ids handed out so far + 1
    dispatchLog,      \* history: objects in the order executeTask took them
    firstTickObjs,    \* history: number of objects when the first tick began
    taskTracker,      \* the TaskTracker: its fields and the task objects it made
    dateNow,          \* Date.now() as the TaskTracker reads it, in date units
    lastCall,         \* history: the last call made to the TaskTracker or the
                      \* ReportGenerator, with its outcome
    framework,        \* the SmartCityAgentFramework and its processUserRequest calls
    systemData,       \* the argument of the system reports
    workflowEngine    \* the WorkflowEngine, its workflows and its executions

schedulerVars == << isRunning, queues, runningTasks, completedTasks, failedTasks, heap,
                    retryTimers, schedulerConfig, agents, now, pc, cur, nextId,
                    dispatchLog, firstTickObjs >>
trackerVars == << taskTracker, dateNow, lastCall, framework, systemData >>
engineVars == << workflowEngine >>
vars == << schedulerVars, trackerVars, engineVars >>

\* ------------------------------------------------------------- helpers
Min(S) == CHOOSE x \in S : \A y \in S : x <= y

RECURSIVE SeqToSet(_)
SeqToSet(s) == IF s = << >> THEN {} ELSE {Head(s)} \cup SeqToSet(Tail(s))

RemoveAt(s, i) == [j \in 1..(Len(s) - 1) |-> IF j < i THEN s[j] ELSE s[j + 1]]

\* Map operations on runningTasks (entries <<id, object>>)
MapIndex(m, k) == IF \E i \in 1..Len(m) : m[i][1] = k
                  THEN CHOOSE i \in 1..Len(m) : m[i][1] = k
                  ELSE 0
MapHas(m, k)    == MapIndex(m, k) # 0
MapSet(m, k, v) == IF MapHas(m, k)
                   THEN [m EXCEPT ![MapIndex(m, k)] = <<k, v>>]
                   ELSE Append(m, <<k, v>>)
MapDelete(m, k) == IF MapHas(m, k) THEN RemoveAt(m, MapIndex(m, k)) ELSE m

NoLocals == [p |-> 0, task |-> 0, agent |-> NoAgent, now |-> 0, it |-> 0]

\* pcs at which a loop waits for a microtask (an already settled promise)
MicroPcs == {"awaitSelect", "awaitExec", "awaitPQ", "awaitCheckHTF", "awaitCheck"}
MicrotasksPending == \E l \in Loops : pc[l] \in MicroPcs

QueueOf(priority) == IF priority = Undefined THEN "medium" ELSE priority

\* ----------------------------------------------- TaskTracker: values
\* src/unnamed/part_003.  One unit of dateNow is one week of Date.now(), the
\* retention window of cleanupOldTasks; the clock starts at 1 (Date.now() is
\* never 0, so a time that is set is truthy).
DateUnitMs == 604800000
oneWeek    == (7 * 24 * 60 * 60 * 1000) \div DateUnitMs
KnownAgents == {"traffic", "weather", "parking", "security"}

\* Optional values: what a call returns (undefined or a value)
None == << >>
Some(x) == << x >>

\* a fraction, for averageExecutionTime = totalDuration / completedTasks.length
Fraction(n, d) == [num |-> n, den |-> d]

\* new TaskTracker(): the fields the constructor sets; heap holds the task
\* objects createTaskTracker has made, activeTasks (a Map, entries
\* <<taskId, object>>), completedTasks refer to them
NewPerformanceMetrics ==
    [ totalTasks |-> 0, successfulTasks |-> 0, failedTasks |-> 0,
      averageExecutionTime |-> Fraction(0, 1),
      agentUtilization |-> [a \in KnownAgents |-> 0] ]
NewTaskTracker ==
    [ activeTasks |-> << >>, completedTasks |-> << >>, taskHistory |-> << >>,
      performanceMetrics |-> NewPerformanceMetrics, heap |-> << >> ]

\* new SmartCityAgentFramework(): activeTasksMap (entries <<taskId, request>>,
\* the taskData object being the one of that processUserRequest call),
\* completedTasks, the processUserRequest calls made so far, and the
\* millisecond of Date.now() within the date unit, which task ids are made of
NewFramework == [activeTasksMap |-> << >>, completedTasks |-> << >>, requests |-> << >>,
                 ms |-> 0]

NoCall == [op |-> "none", taskId |-> 0, obj |-> 0, threw |-> FALSE, returned |-> None]
NoSystemData == [activeTasks |-> 0, performanceMetrics |-> NewPerformanceMetrics]

\* new WorkflowEngine(): workflows (the workflow objects createWorkflow made;
\* inMap tells whether this.workflows still holds the object), the executions
\* executeWorkflow made, executingWorkflows and workflowHistory (which refer
\* to them), and whether window.platform has a generateTaskId method (the
\* MultiAgentPlatform of app.js has none)
NewWorkflowEngine(generateTaskId) ==
    [ workflows |-> << >>, executions |-> << >>, executingWorkflows |-> << >>,
      workflowHistory |-> << >>, generateTaskId |-> generateTaskId ]
EngineIdle == workflowEngine = NewWorkflowEngine(FALSE)

\* ------------------------------------------------------------------ Init
\* new TaskScheduler() in deployment d
NewTaskScheduler(d) ==
    /\ isRunning = FALSE
    /\ queues = [q \in QueueNames |-> << >>]
    /\ runningTasks = << >>
    /\ completedTasks = << >>
    /\ failedTasks = << >>
    /\ heap = << >>
    /\ retryTimers = EmptyBag
    /\ schedulerConfig = d.config /\ agents = d.agents
    /\ now = 0
    /\ pc = [l \in Loops |-> "idle"]
    /\ cur = [l \in Loops |-> NoLocals]
    /\ nextId = 1
    /\ dispatchLog = << >>
    /\ firstTickObjs = -1

\* the TaskTracker and the framework that uses it, before any call
TrackerIdle ==
    /\ taskTracker = NewTaskTracker
    /\ dateNow = 1
    /\ lastCall = NoCall
    /\ framework = NewFramework
    /\ systemData = NoSystemData

Init ==
    /\ \E d \in Deployments : NewTaskScheduler(d)
    /\ TrackerIdle
    /\ EngineIdle

\* ------------------------------------------------------------ selectAgent
hasRequiredCapabilities(task, agent) ==
    \* task.requiredCapabilities?.every(cap => agent.capabilities?.includes(cap)) || true
    \/ /\ task.requiredCapabilities.declared
       /\ \A cap \in task.requiredCapabilities.caps : cap \in agent.capabilities
    \/ TRUE

availableAgents(task) ==
    { a \in 1..Len(agents) :
        /\ agents[a].status = "ready"
        /\ agents[a].load < schedulerConfig.maxTasksPerAgent
        /\ hasRequiredCapabilities(task, agents[a]) }

\* stable sort by load, first element: the first agent of least load
selectAgent(task) ==
    LET av == availableAgents(task)
    IN  IF av = {} THEN NoAgent
        ELSE Min({ a \in av : \A b \in av : agents[a].load <= agents[b].load })

\* ------------------------------------------------------------ scheduleTask
canExecuteMoreTasks == Len(runningTasks) < schedulerConfig.maxConcurrentTasks

\* the object scheduleTask builds from the caller's task
scheduledTask(task) ==
    [ task EXCEPT
        !.attempts = 0,
        !.maxAttempts = IF task.maxAttempts # 0 THEN task.maxAttempts ELSE retryAttempts,
        !.status = "queued" ]

\* queue.push(scheduledTask)
Enqueue_unshift(q, k) == <<k>> \o q
Enqueue(q, k) == Append(q, k)

\* queue.shift()
Shift(q) == Tail(q)
QueueHead(q) == Head(q)

\* scheduleTask called by a user of the scheduler, with a fresh id
scheduleTask(priority, maxAttempts, requiredCapabilities) ==
    /\ nextId <= MaxTasks
    /\ Len(heap) < MaxObjs
    /\ LET task == [ id |-> nextId, priority |-> priority, maxAttempts |-> maxAttempts,
                     attempts |-> 0, status |-> Undefined, startTime |-> NoTime,
                     assignedAgent |-> NoAgent,
                     requiredCapabilities |-> requiredCapabilities ]
           k == Len(heap) + 1
       IN  /\ heap' = Append(heap, scheduledTask(task))
           /\ queues' = [queues EXCEPT ![QueueOf(priority)] = Enqueue(@, k)]
    /\ nextId' = nextId + 1
    /\ UNCHANGED << isRunning, runningTasks, completedTasks, failedTasks, retryTimers,
                    schedulerConfig, agents, now, pc, cur, dispatchLog, firstTickObjs >>
    /\ UNCHANGED << trackerVars, engineVars >>

\* --------------------------------------------------------- processQueues
\* processQueues of loop l, entered at level p of priorityOrder, up to its
\* next await: either it shifts a task and starts executeTask (which sets the
\* task running and calls selectAgent before its first await), or it falls
\* through the remaining levels and returns.
processQueues(l, p) ==
    LET cand == { q \in p..Len(priorityOrder) : Len(queues[priorityOrder[q]]) > 0 }
    IN  IF canExecuteMoreTasks /\ cand # {}
        THEN LET q    == Min(cand)
                 name == priorityOrder[q]
                 t    == QueueHead(queues[name])
             IN  /\ queues' = [queues EXCEPT ![name] = Shift(@)]
                 /\ heap' = [heap EXCEPT ![t].status = "running", ![t].startTime = now]
                 /\ runningTasks' = MapSet(runningTasks, heap[t].id, t)
                 /\ dispatchLog' = Append(dispatchLog, t)
                 /\ pc' = [pc EXCEPT ![l] = "awaitSelect"]
                 /\ cur' = [cur EXCEPT ![l] = [NoLocals EXCEPT !.p = q, !.task = t,
                                                   !.agent = selectAgent(heap[t])]]
        ELSE /\ pc' = [pc EXCEPT ![l] = "awaitPQ"]
             /\ cur' = [cur EXCEPT ![l] = NoLocals]
             /\ UNCHANGED << queues, heap, runningTasks, dispatchLog >>

\* the while (this.isRunning) test of scheduleLoop, then the tick
scheduleLoop(l, running) ==
    IF running
    THEN /\ processQueues(l, 1)
         /\ firstTickObjs' = IF firstTickObjs = -1 THEN Len(heap) ELSE firstTickObjs
    ELSE /\ pc' = [pc EXCEPT ![l] = "idle"]
         /\ cur' = [cur EXCEPT ![l] = NoLocals]
         /\ UNCHANGED << queues, heap, runningTasks, dispatchLog, firstTickObjs >>

\* ------------------------------------------------------------ start / stop
start ==
    /\ ~isRunning
    /\ \E l \in Loops :
         /\ pc[l] = "idle"
         /\ \A l2 \in Loops : l2 < l => pc[l2] # "idle"
         /\ isRunning' = TRUE
         /\ scheduleLoop(l, TRUE)
    /\ UNCHANGED << completedTasks, failedTasks, retryTimers, schedulerConfig, agents,
                    now, nextId >>
    /\ UNCHANGED << trackerVars, engineVars >>

stop ==
    /\ isRunning
    /\ isRunning' = FALSE
    /\ UNCHANGED << queues, runningTasks, completedTasks, failedTasks, heap, retryTimers,
                    schedulerConfig, agents, now, pc, cur, nextId, dispatchLog,
                    firstTickObjs >>
    /\ UNCHANGED << trackerVars, engineVars >>

\* ------------------------------------------------------ handleTaskFailure
\* iterators of checkRunningTasks after runningTasks.delete(id): a Map
\* iterator keeps its place when an entry before it is deleted
CursorsAfterDelete(id) ==
    [ l \in Loops |->
        IF /\ pc[l] = "awaitCheckHTF"
           /\ MapHas(runningTasks, id)
           /\ cur[l].it > MapIndex(runningTasks, id)
        THEN [cur[l] EXCEPT !.it = @ - 1]
        ELSE cur[l] ]

handleTaskFailure(t) ==
    /\ heap' = [heap EXCEPT ![t].attempts = @ + 1, ![t].status = "failed"]
    /\ runningTasks' = MapDelete(runningTasks, heap[t].id)
    /\ IF heap[t].attempts + 1 < heap[t].maxAttempts
       THEN /\ retryTimers' = retryTimers (+) SetToBag({t})
            /\ UNCHANGED failedTasks
       ELSE /\ failedTasks' = Append(failedTasks, t)
            /\ UNCHANGED retryTimers

\* the setTimeout callback of handleTaskFailure: task.status = 'retrying',
\* then scheduleTask(task), which queues a new object built from the task
retryTimer(t) ==
    /\ ~MicrotasksPending
    /\ BagIn(t, retryTimers)
    /\ Len(heap) < MaxObjs
    /\ retryTimers' = retryTimers (-) SetToBag({t})
    /\ LET old == [heap[t] EXCEPT !.status = "retrying"]
           k   == Len(heap) + 1
       IN  /\ heap' = Append([heap EXCEPT ![t] = old], scheduledTask(old))
           /\ queues' = [queues EXCEPT ![QueueOf(old.priority)] = Enqueue(@, k)]
    /\ UNCHANGED << isRunning, runningTasks, completedTasks, failedTasks,
                    schedulerConfig, agents, now, pc, cur, nextId, dispatchLog,
                    firstTickObjs >>
    /\ UNCHANGED << trackerVars, engineVars >>

\* ------------------------------------------------------------ executeTask
\* an executeTask that starts runTask without awaiting it
executeTaskSelected_noAwait(l) ==
    /\ pc[l] = "awaitSelect"
    /\ LET t == cur[l].task
       IN  IF cur[l].agent = NoAgent
           THEN /\ handleTaskFailure(t)
                /\ pc' = [pc EXCEPT ![l] = "awaitExec"]
                /\ cur' = CursorsAfterDelete(heap[t].id)
                /\ UNCHANGED completedTasks
           ELSE /\ heap' = [heap EXCEPT ![t].assignedAgent = cur[l].agent]
                /\ pc' = [pc EXCEPT ![l] = "awaitExec"]
                /\ UNCHANGED << runningTasks, completedTasks, failedTasks, retryTimers, cur >>
    /\ UNCHANGED << isRunning, queues, schedulerConfig, agents, now, nextId,
                    dispatchLog, firstTickObjs >>
    /\ UNCHANGED << trackerVars, engineVars >>

\* after "await this.selectAgent(task)"
executeTaskSelected(l) ==
    /\ pc[l] = "awaitSelect"
    /\ LET t == cur[l].task
       IN  IF cur[l].agent = NoAgent
           THEN \* throw new Error(...) -> catch -> handleTaskFailure
                /\ handleTaskFailure(t)
                /\ pc' = [pc EXCEPT ![l] = "awaitExec"]
                /\ cur' = CursorsAfterDelete(heap[t].id)
                /\ UNCHANGED completedTasks
           ELSE /\ heap' = [heap EXCEPT ![t].assignedAgent = cur[l].agent]
                /\ pc' = [pc EXCEPT ![l] = "awaitRun"]
                /\ UNCHANGED << runningTasks, completedTasks, failedTasks, retryTimers, cur >>
    /\ UNCHANGED << isRunning, queues, schedulerConfig, agents, now, nextId,
                    dispatchLog, firstTickObjs >>
    /\ UNCHANGED << trackerVars, engineVars >>

\* the promise of runTask resolves: the worker reports success
runTaskResolved(l) ==
    /\ ~MicrotasksPending
    /\ pc[l] = "awaitRun"
    /\ LET t == cur[l].task
       IN  /\ heap' = [heap EXCEPT ![t].status = "completed"]
           /\ runningTasks' = MapDelete(runningTasks, heap[t].id)
           /\ completedTasks' = Append(completedTasks, t)
           /\ cur' = CursorsAfterDelete(heap[t].id)
    /\ pc' = [pc EXCEPT ![l] = "awaitExec"]
    /\ UNCHANGED << isRunning, queues, failedTasks, retryTimers, schedulerConfig, agents,
                    now, nextId, dispatchLog, firstTickObjs >>
    /\ UNCHANGED << trackerVars, engineVars >>

\* the promise of runTask rejects: the worker reports failure
runTaskRejected(l) ==
    /\ ~MicrotasksPending
    /\ pc[l] = "awaitRun"
    /\ handleTaskFailure(cur[l].task)
    /\ cur' = CursorsAfterDelete(heap[cur[l].task].id)
    /\ pc' = [pc EXCEPT ![l] = "awaitExec"]
    /\ UNCHANGED << isRunning, queues, completedTasks, schedulerConfig, agents,
                    now, nextId, dispatchLog, firstTickObjs >>
    /\ UNCHANGED << trackerVars, engineVars >>

\* after "await this.executeTask(task)": back to the while test of the level
processQueuesResumed(l) ==
    /\ pc[l] = "awaitExec"
    /\ processQueues(l, cur[l].p)
    /\ UNCHANGED << isRunning, completedTasks, failedTasks, retryTimers, schedulerConfig,
                    agents, now, nextId, firstTickObjs >>
    /\ UNCHANGED << trackerVars, engineVars >>

\* ------------------------------------------------------ checkRunningTasks
TimedOut(t, at) == at - heap[t].startTime > timeout

\* the for-of loop over runningTasks of loop l, from entry i on, with the
\* value of Date.now() read at entry to the function: up to the next await
checkRunningTasks(l, i, at) ==
    LET late == { j \in i..Len(runningTasks) : TimedOut(runningTasks[j][2], at) }
    IN  IF late # {}
        THEN LET j == Min(late)
                 t == runningTasks[j][2]
             IN  /\ handleTaskFailure(t)
                 /\ pc' = [pc EXCEPT ![l] = "awaitCheckHTF"]
                 /\ cur' = [CursorsAfterDelete(heap[t].id) EXCEPT
                               ![l] = [NoLocals EXCEPT !.it = j, !.now = at]]
        ELSE /\ pc' = [pc EXCEPT ![l] = "awaitCheck"]
             /\ cur' = [cur EXCEPT ![l] = NoLocals]
             /\ UNCHANGED << heap, runningTasks, retryTimers, failedTasks >>

\* after "await this.processQueues()"
checkRunningTasksCalled(l) ==
    /\ pc[l] = "awaitPQ"
    /\ checkRunningTasks(l, 1, now)
    /\ UNCHANGED << isRunning, queues, completedTasks, schedulerConfig, agents, now,
                    nextId, dispatchLog, firstTickObjs >>
    /\ UNCHANGED << trackerVars, engineVars >>

\* after "await this.handleTaskFailure(task, error)" inside the for-of loop
checkRunningTasksResumed(l) ==
    /\ pc[l] = "awaitCheckHTF"
    /\ checkRunningTasks(l, cur[l].it, cur[l].now)
    /\ UNCHANGED << isRunning, queues, completedTasks, schedulerConfig, agents, now,
                    nextId, dispatchLog, firstTickObjs >>
    /\ UNCHANGED << trackerVars, engineVars >>

\* after "await this.checkRunningTasks()": sleep(1000)
sleep(l) ==
    /\ pc[l] = "awaitCheck"
    /\ pc' = [pc EXCEPT ![l] = "sleeping"]
    /\ UNCHANGED << isRunning, queues, runningTasks, completedTasks, failedTasks, heap,
                    retryTimers, schedulerConfig, agents, now, cur, nextId, dispatchLog,
                    firstTickObjs >>
    /\ UNCHANGED << trackerVars, engineVars >>

\* the timer of sleep fires: the while test of scheduleLoop, then the next tick
scheduleLoopWoken(l) ==
    /\ ~MicrotasksPending
    /\ pc[l] = "sleeping"
    /\ scheduleLoop(l, isRunning)
    /\ UNCHANGED << isRunning, completedTasks, failedTasks, retryTimers, schedulerConfig,
                    agents, now, nextId >>
    /\ UNCHANGED << trackerVars, engineVars >>

\* the clock advances
Tick ==
    /\ ~MicrotasksPending
    /\ now < MaxTime
    /\ now' = now + 1
    /\ UNCHANGED << isRunning, queues, runningTasks, completedTasks, failedTasks, heap,
                    retryTimers, schedulerConfig, agents, pc, cur, nextId, dispatchLog,
                    firstTickObjs >>
    /\ UNCHANGED << trackerVars, engineVars >>

Next ==
    \/ start
    \/ stop
    \/ \E in \in TaskInputs :
           scheduleTask(in.priority, in.maxAttempts, in.requiredCapabilities)
    \/ \E l \in Loops : executeTaskSelected(l)
    \/ \E l \in Loops : runTaskResolved(l)
    \/ \E l \in Loops : runTaskRejected(l)
    \/ \E l \in Loops : processQueuesResumed(l)
    \/ \E l \in Loops : checkRunningTasksCalled(l)
    \/ \E l \in Loops : checkRunningTasksResumed(l)
    \/ \E l \in Loops : sleep(l)
    \/ \E l \in Loops : scheduleLoopWoken(l)
    \/ \E t \in 1..Len(heap) : retryTimer(t)
    \/ Tick

Spec == Init /\ [][Next]_vars

\* The event loop runs every continuation that is ready and fires every timer
\* that is due: a loop suspended at an await on a settled promise, or in
\* sleep, goes on, a retry timer fires, and the clock moves.  Nothing makes a
\* caller call the scheduler or a worker settle the promise of runTask.
LoopStep(l) ==
    \/ executeTaskSelected(l)
    \/ processQueuesResumed(l)
    \/ checkRunningTasksCalled(l)
    \/ checkRunningTasksResumed(l)
    \/ sleep(l)
    \/ scheduleLoopWoken(l)

FairSpec ==
    /\ Spec
    /\ \A l \in Loops : WF_vars(LoopStep(l))
    /\ \A t \in 1..MaxObjs : WF_vars(t \in 1..Len(heap) /\ retryTimer(t))
    /\ WF_vars(Tick)

\* =========================================================== TaskTracker
\* src/unnamed/part_003.  Every operator below takes the tracker T (its
\* fields and its task objects) and the value `at` that Date.now() returns
\* during the call, and gives the tracker after the call.

\* truthiness of a time or duration: null and 0 are falsy
Falsy(x) == x = NoTime \/ x = 0
OrElse(x, y) == IF Falsy(x) THEN y ELSE x

RECURSIVE GCD(_, _)
GCD(a, b) == IF b = 0 THEN a ELSE GCD(b, a % b)
\* the number n / d (d > 0), in lowest terms
Quotient(n, d) == LET g == GCD(n, d) IN Fraction(n \div g, d \div g)
\* x + y of two fractions
FractionSum(x, y) == Quotient(x.num * y.den + y.num * x.den, x.den * y.den)

RECURSIVE SumSeq(_)
SumSeq(s) == IF s = << >> THEN 0 ELSE Head(s) + SumSeq(Tail(s))
\* the sum of f[x] over the x in S
RECURSIVE SumFun(_, _)
SumFun(f, S) == IF S = {} THEN 0
                ELSE LET x == CHOOSE y \in S : TRUE IN f[x] + SumFun(f, S \ {x})

\* this.activeTasks.get(taskId): the object, 0 for undefined
activeTasksGet(T, taskId) ==
    IF MapHas(T.activeTasks, taskId)
    THEN T.activeTasks[MapIndex(T.activeTasks, taskId)][2]
    ELSE 0

\* the bucket recordSensorDataUsage makes for a sensor type on first use;
\* totalDataSize is a number of KB, kept as a fraction
NoBucket == [calls |-> 0, totalDataSize |-> Fraction(0, 1), totalProcessingTime |-> 0]

addTaskPhase_unshift(T, taskId, phaseType, status, agent, at) ==
    LET k == activeTasksGet(T, taskId)
    IN  IF k = 0 THEN T
        ELSE LET phase == [ type |-> phaseType, status |-> status, timestamp |-> at,
                            agent |-> IF agent = Undefined THEN "system" ELSE agent ]
             IN  [T EXCEPT !.heap[k].phases = << phase >> \o @]

\* agent is data.agent: Undefined when the caller passes no data
addTaskPhase(T, taskId, phaseType, status, agent, at) ==
    LET k == activeTasksGet(T, taskId)
    IN  IF k = 0 THEN T
        ELSE LET phase == [ type |-> phaseType, status |-> status, timestamp |-> at,
                            agent |-> IF agent = Undefined THEN "system" ELSE agent ]
             IN  [T EXCEPT !.heap[k].phases = Append(@, phase),
                           !.heap[k].agentsInvolved =
                               IF agent # Undefined /\ ~(agent \in SeqToSet(@))
                               THEN Append(@, agent) ELSE @]

createTaskTracker(T, taskId, priority, at) ==
    LET task == [ id |-> taskId,
                  priority |-> IF priority = Undefined THEN "medium" ELSE priority,
                  status |-> "created", createdAt |-> at, startTime |-> NoTime,
                  endTime |-> NoTime, duration |-> NoTime, phases |-> << >>,
                  agentsInvolved |-> << >>,
                  sensorDataUsed |-> << >>,
                  errors |-> << >>,
                  metrics |-> [dataProcessingTime |-> 0, apiCalls |-> 0] ]
        k == Len(T.heap) + 1
        T1 == [T EXCEPT !.heap = Append(@, task), !.activeTasks = MapSet(@, taskId, k)]
    IN  addTaskPhase(T1, taskId, "initialization", "info", Undefined, at)

\* ------------------------------------------------------- ReportGenerator
Formatted(unit, a, b) == [unit |-> unit, a |-> a, b |-> b]

\* formatDuration(ms) of a duration of d date units
formatDuration(d) ==
    IF Falsy(d) THEN Formatted("N/A", 0, 0)
    ELSE LET seconds == d * (DateUnitMs \div 1000)
             minutes == seconds \div 60
             hours   == minutes \div 60
         IN  IF hours > 0 THEN Formatted("hours minutes", hours, minutes % 60)
             ELSE IF minutes > 0 THEN Formatted("minutes seconds", minutes, seconds % 60)
             ELSE Formatted("seconds", seconds, 0)

\* The numbers of a report are IEEE 754 doubles.  A natural number of any
\* size is the sequence of its bits, the lowest first and the highest a 1; a
\* double that is not negative is Double(m, e), the number m * 2^e, m a
\* natural number of at most Precision bits.
Precision == 53
Double(m, e) == [m |-> m, e |-> e]

RECURSIVE BitsOf(_)
BitsOf(n) == IF n = 0 THEN << >> ELSE << n % 2 >> \o BitsOf(n \div 2)

RECURSIVE BigSumCarry(_, _, _)
BigSumCarry(x, y, carry) ==
    IF x = << >> /\ y = << >> THEN (IF carry = 1 THEN << 1 >> ELSE << >>)
    ELSE LET t == (IF x = << >> THEN 0 ELSE Head(x))
                  + (IF y = << >> THEN 0 ELSE Head(y)) + carry
         IN  << t % 2 >> \o BigSumCarry(IF x = << >> THEN << >> ELSE Tail(x),
                                        IF y = << >> THEN << >> ELSE Tail(y),
                                        t \div 2)
BigSum(x, y) == BigSumCarry(x, y, 0)
\* x * 2^s
BigShift(x, s) == IF x = << >> \/ s = 0 THEN x ELSE [i \in 1..s |-> 0] \o x
\* x * c for a natural number c
RECURSIVE BigTimes(_, _)
BigTimes(x, c) ==
    IF c = 0 THEN << >>
    ELSE BigSum(IF c % 2 = 1 THEN x ELSE << >>, BigShift(BigTimes(x, c \div 2), 1))
RECURSIVE BigAtLeastFrom(_, _, _)
BigAtLeastFrom(x, y, i) ==
    IF i = 0 THEN TRUE
    ELSE IF x[i] # y[i] THEN x[i] > y[i]
    ELSE BigAtLeastFrom(x, y, i - 1)
\* x >= y
BigAtLeast(x, y) ==
    IF Len(x) # Len(y) THEN Len(x) > Len(y) ELSE BigAtLeastFrom(x, y, Len(x))

\* the double nearest to (x + f) * 2^e, ties to the even one; f is a
\* fraction below 1 that is not 0 when sticky holds
roundToDouble(x, e, sticky) ==
    LET dropped == Len(x) - Precision
    IN  IF dropped <= 0 THEN Double(x, e)
        ELSE LET kept == SubSeq(x, dropped + 1, Len(x))
                 half == x[dropped] = 1
                 low  == sticky \/ \E i \in 1..(dropped - 1) : x[i] = 1
                 m    == IF half /\ (low \/ kept[1] = 1) THEN BigSum(kept, << 1 >>)
                         ELSE kept
             IN  IF Len(m) > Precision THEN Double(Tail(m), e + dropped + 1)
                 ELSE Double(m, e + dropped)

\* the division a / b of two natural numbers (b > 0) that are doubles: the
\* quotient bit by bit, x * 2^e so far with the remainder r < b, until it is
\* exact or one bit longer than a double
RECURSIVE divideBits(_, _, _, _)
divideBits(x, r, b, e) ==
    IF Len(x) > Precision THEN roundToDouble(x, e, r # 0)
    ELSE IF r = 0 THEN Double(x, e)
    ELSE LET bit  == IF r >= b - r THEN 1 ELSE 0
             rest == IF bit = 1 THEN r - (b - r) ELSE r + r
         IN  divideBits(IF x = << >> /\ bit = 0 THEN << >> ELSE << bit >> \o x,
                        rest, b, e - 1)
doubleQuotient(a, b) == divideBits(BitsOf(a \div b), a % b, b, 0)
\* x * 100
doubleTimes100(x) == roundToDouble(BigTimes(x.m, 100), x.e, FALSE)
\* x >= n / d, for a natural number n given by its bits and d > 0
doubleAtLeast(x, n, d) ==
    IF x.e >= 0 THEN BigAtLeast(BigShift(BigTimes(x.m, d), x.e), n)
    ELSE BigAtLeast(BigTimes(x.m, d), BigShift(n, 0 - x.e))
\* x / d for a power of two d: exact
RECURSIVE doubleOver(_, _)
doubleOver(x, d) == IF d = 1 THEN x ELSE doubleOver(Double(x.m, x.e - 1), d \div 2)

\* Number.prototype.toFixed takes the n with n / 10^digits nearest to the
\* double, the larger n of two.  A double computed from small integers is
\* far nearer to the exact number than that number is to a midpoint between
\* two results it does not hit, so the rounding errors of the double decide
\* only when the exact number n / d is a midpoint.
\* n / d is an odd integer: the exact number, doubled and scaled, is a midpoint
IsMidpoint(n, d) == n % d = 0 /\ (n \div d) % 2 = 1

\* (a / b * 100).toFixed(1) + '%' for natural numbers a and b, in tenths of
\* a percent
toFixed1Percent(a, b) ==
    IF b = 0 THEN Formatted(IF a = 0 THEN "NaN%" ELSE "Infinity%", 0, 0)
    ELSE LET lower == (1000 * a) \div b
             upper == IF IsMidpoint(2000 * a, b)
                      THEN doubleAtLeast(doubleTimes100(doubleQuotient(a, b)),
                                         BitsOf(2 * lower + 1), 20)
                      ELSE ((2000 * a) \div b) % 2 = 1
         IN  Formatted("%", IF upper THEN lower + 1 ELSE lower, 0)

\* (totalProcessingTime / calls).toFixed(1) + 'ms': the milliseconds and
\* the tenth
averageProcessingTime(total, calls) ==
    LET whole == total \div calls
        rest  == total % calls
        lower == (10 * rest) \div calls
        upper == IF IsMidpoint(20 * rest, calls)
                 THEN doubleAtLeast(doubleQuotient(total, calls),
                                    BigSum(BigTimes(BitsOf(whole), 20),
                                           BitsOf(2 * lower + 1)),
                                    20)
                 ELSE ((20 * rest) \div calls) % 2 = 1
        tenths == IF upper THEN lower + 1 ELSE lower
    IN  Formatted("ms", whole + tenths \div 10, tenths % 10)

\* calculateDataEfficiency(data): (totalDataSize / totalProcessingTime)
\* .toFixed(2) + ' KB/ms', in hundredths; the size is a number of KB whose
\* denominator is a power of two
calculateDataEfficiency(data) ==
    LET size == data.totalDataSize
        time == data.totalProcessingTime
    IN  IF time = 0
        THEN Formatted(IF size.num = 0 THEN "NaN KB/ms" ELSE "Infinity KB/ms", 0, 0)
        ELSE LET doubled == (200 * size.num) \div size.den
                 lower   == (doubled \div time) \div 2
                 upper   == IF (200 * size.num) % size.den = 0 /\ IsMidpoint(doubled, time)
                            THEN doubleAtLeast(
                                     doubleOver(doubleQuotient(size.num, time), size.den),
                                     BitsOf(2 * lower + 1), 200)
                            ELSE (doubled \div time) % 2 = 1
             IN  Formatted("KB/ms", IF upper THEN lower + 1 ELSE lower, 0)

\* Math.floor(Math.log(bytes) / Math.log(1024)) of the fraction bytes > 0:
\* negative below 1
RECURSIVE FloorLog1024(_)
FloorLog1024(bytes) ==
    IF bytes.num < bytes.den
    THEN FloorLog1024(Fraction(bytes.num * 1024, bytes.den)) - 1
    ELSE IF bytes.num \div 1024 >= bytes.den
         THEN FloorLog1024(Fraction(bytes.num, bytes.den * 1024)) + 1
         ELSE 0
RECURSIVE Pow1024(_)
Pow1024(i) == IF i = 0 THEN 1 ELSE 1024 * Pow1024(i - 1)
\* formatDataSize(bytes): parseFloat((bytes / 1024^i).toFixed(1)) + ' ' + sizes[i],
\* the number in tenths; sizes[i] is undefined when i is not 0..3.  bytes is
\* a fraction whose denominator is a power of two, so the double is exact
formatDataSize(bytes) ==
    IF bytes.num = 0 THEN Formatted("B", 0, 0)
    ELSE LET i == FloorLog1024(bytes)
             n == IF i < 0 THEN bytes.num * Pow1024(0 - i) ELSE bytes.num
             d == IF i < 0 THEN bytes.den ELSE bytes.den * Pow1024(i)
         IN  Formatted(IF i \in 0..3 THEN << "B", "KB", "MB", "GB" >>[i + 1]
                       ELSE Undefined,
                       (20 * n + d) \div (2 * d), 0)

\* new Date(timestamp).toLocaleTimeString(): the time of day, in ms
MsPerDay == 24 * 60 * 60 * 1000
toLocaleTimeString(timestamp) == (timestamp * (DateUnitMs % MsPerDay)) % MsPerDay

CountStatus(s, status) == Cardinality({ i \in 1..Len(s) : s[i].status = status })
CountAgent(s, agent) == Cardinality({ i \in 1..Len(s) : s[i].agent = agent })

calculateSuccessRate(task) ==
    LET totalPhases == Len(task.phases)
        errorPhases == CountStatus(task.phases, "error")
    IN  toFixed1Percent(totalPhases - errorPhases, totalPhases)

\* Object.values(sensorDataUsed).reduce((sum, data) => sum + data.totalDataSize, 0)
RECURSIVE totalDataSize(_)
totalDataSize(used) ==
    IF DOMAIN used = {} THEN Fraction(0, 1)
    ELSE LET s == CHOOSE t \in DOMAIN used : TRUE
         IN  FractionSum(used[s].totalDataSize,
                         totalDataSize([t \in DOMAIN used \ {s} |-> used[t]]))

generateExecutionSummary(task) ==
    [ status |-> task.status,
      duration |-> formatDuration(task.duration),
      agentsInvolved |-> Len(task.agentsInvolved),
      phasesCompleted |-> Len(task.phases),
      errorsEncountered |-> Len(task.errors),
      dataProcessed |-> formatDataSize(totalDataSize(task.sensorDataUsed)) ]

generateTimeline(task) ==
    [ i \in 1..Len(task.phases) |->
        LET phase == task.phases[i]
        IN  [ timestamp |-> toLocaleTimeString(phase.timestamp),
              relativeTime |-> formatDuration(phase.timestamp - task.createdAt),
              phase |-> phase.type, status |-> phase.status, agent |-> phase.agent ] ]

analyzeAgentPerformance(task) ==
    [ agent \in SeqToSet(task.agentsInvolved) |->
        LET agentPhases == CountAgent(task.phases, agent)
            agentErrors == CountAgent(task.errors, agent)
        IN  [ phasesHandled |-> agentPhases,
              errorsGenerated |-> agentErrors,
              successRate |-> IF agentPhases > 0
                              THEN toFixed1Percent(agentPhases - agentErrors, agentPhases)
                              ELSE Formatted("N/A", 0, 0) ] ]

analyzeSensorDataUsage(task) ==
    [ sensorType \in DOMAIN task.sensorDataUsed |->
        LET data == task.sensorDataUsed[sensorType]
        IN  [ calls |-> data.calls,
              totalDataSize |-> formatDataSize(data.totalDataSize),
              averageProcessingTime |->
                  averageProcessingTime(data.totalProcessingTime, data.calls),
              efficiency |-> calculateDataEfficiency(data) ] ]

\* the thresholds of generateRecommendations, in date units of duration
thirtySeconds == 30000 \div DateUnitMs
generateRecommendations(task) ==
    LET totalDataCalls == SumFun([s \in DOMAIN task.sensorDataUsed |->
                                     task.sensorDataUsed[s].calls],
                                 DOMAIN task.sensorDataUsed)
    IN  (IF Len(task.errors) > 0 THEN << "error_prevention" >> ELSE << >>)
        \o (IF task.duration > thirtySeconds THEN << "performance_optimization" >> ELSE << >>)
        \o (IF totalDataCalls > 10 THEN << "data_optimization" >> ELSE << >>)

\* generateTaskReport(task) called when new Date() is `at`
generateTaskReport(task, at) ==
    [ taskId |-> task.id,
      executionSummary |-> generateExecutionSummary(task),
      timeline |-> generateTimeline(task),
      agentPerformance |-> analyzeAgentPerformance(task),
      dataUsage |-> analyzeSensorDataUsage(task),
      recommendations |-> generateRecommendations(task),
      metadata |-> [ generatedAt |-> at,
                     taskDuration |-> formatDuration(task.duration),
                     successRate |-> IF Len(task.errors) = 0
                                     THEN Formatted("100%", 0, 0)
                                     ELSE calculateSuccessRate(task) ] ]

\* ------------------------------------------------ TaskTracker, continued
\* updatePerformanceMetrics(task), task being object k, already archived
updatePerformanceMetrics(T, k) ==
    LET task == T.heap[k]
        m == T.performanceMetrics
        totalDuration ==
            SumSeq([i \in 1..Len(T.completedTasks) |->
                       OrElse(T.heap[T.completedTasks[i]].duration, 0)])
    IN  [T EXCEPT !.performanceMetrics =
            [ totalTasks |-> m.totalTasks + 1,
              successfulTasks |-> m.successfulTasks + IF task.status = "completed" THEN 1 ELSE 0,
              failedTasks |-> m.failedTasks + IF task.status = "failed" THEN 1 ELSE 0,
              averageExecutionTime |-> Quotient(totalDuration, Len(T.completedTasks)),
              agentUtilization |->
                  [a \in KnownAgents |->
                      m.agentUtilization[a]
                          + IF a \in SeqToSet(task.agentsInvolved) THEN 1 ELSE 0] ]]

\* taskHistory gets a copy { ...task, completedAt } of the task as it is now
completeTask_anyRecord(T, taskId, at) ==
    LET k == IF activeTasksGet(T, taskId) # 0 THEN activeTasksGet(T, taskId)
             ELSE IF \E i \in 1..Len(T.completedTasks) : T.heap[T.completedTasks[i]].id = taskId
             THEN T.completedTasks[CHOOSE i \in 1..Len(T.completedTasks) :
                                      T.heap[T.completedTasks[i]].id = taskId]
             ELSE 0
    IN  IF k = 0 THEN T
        ELSE updatePerformanceMetrics(
                 [T EXCEPT !.activeTasks = MapDelete(@, taskId),
                           !.completedTasks = Append(@, k),
                           !.taskHistory = Append(@, [task |-> T.heap[k], completedAt |-> at])],
                 k)

completeTask(T, taskId, at) ==
    LET k == activeTasksGet(T, taskId)
    IN  IF k = 0 THEN T
        ELSE updatePerformanceMetrics(
                 [T EXCEPT !.activeTasks = MapDelete(@, taskId),
                           !.completedTasks = Append(@, k),
                           !.taskHistory = Append(@, [task |-> T.heap[k], completedAt |-> at])],
                 k)

\* what completeTask returns: undefined, or the report of the task
completeTaskReturn(T, taskId, at) ==
    LET k == activeTasksGet(T, taskId)
    IN  IF k = 0 THEN None ELSE Some(generateTaskReport(T.heap[k], at))

updateTaskStatus(T, taskId, status, at) ==
    LET k == activeTasksGet(T, taskId)
    IN  IF k = 0 THEN T
        ELSE LET T1 == [T EXCEPT !.heap[k].status = status]
                 T2 == addTaskPhase(T1, taskId, "status_change", status, Undefined, at)
             IN  CASE status = "running" ->
                        IF Falsy(T2.heap[k].startTime)
                        THEN [T2 EXCEPT !.heap[k].startTime = at]
                        ELSE T2
                   [] status \in {"completed", "failed"} ->
                        completeTask(
                            [T2 EXCEPT !.heap[k].endTime = at,
                                       !.heap[k].duration =
                                           at - OrElse(T2.heap[k].startTime,
                                                       T2.heap[k].createdAt)],
                            taskId, at)
                   [] OTHER -> T2

\* sensorType is any string: its bucket is made on first use.  dataSize is a
\* fraction (a number of KB), processingTime a number of milliseconds
recordSensorDataUsage(T, taskId, sensorType, dataSize, processingTime) ==
    LET k == activeTasksGet(T, taskId)
    IN  IF k = 0 THEN T
        ELSE LET used == T.heap[k].sensorDataUsed
                 sensorData == IF sensorType \in DOMAIN used THEN used[sensorType]
                               ELSE NoBucket
                 updated ==
                     [ calls |-> sensorData.calls + 1,
                       totalDataSize |-> FractionSum(sensorData.totalDataSize, dataSize),
                       totalProcessingTime |->
                           sensorData.totalProcessingTime + processingTime ]
             IN  [T EXCEPT !.heap[k].sensorDataUsed =
                               [ s \in DOMAIN used \cup {sensorType} |->
                                   IF s = sensorType THEN updated ELSE used[s] ],
                           !.heap[k].metrics.dataProcessingTime = @ + processingTime,
                           !.heap[k].metrics.apiCalls = @ + 1]

\* recordError(taskId, error, agent): error is the message of an Error, or
\* Undefined; agent is Undefined when the caller passes none.  Reading
\* error.message of undefined throws before anything is changed.
recordErrorThrows(T, taskId, error) ==
    activeTasksGet(T, taskId) # 0 /\ error = Undefined

recordError_archived(T, taskId, error, agent, at) ==
    LET ka == activeTasksGet(T, taskId)
        k == IF ka # 0 THEN ka
             ELSE IF \E i \in 1..Len(T.completedTasks) : T.heap[T.completedTasks[i]].id = taskId
             THEN T.completedTasks[CHOOSE i \in 1..Len(T.completedTasks) :
                                      T.heap[T.completedTasks[i]].id = taskId]
             ELSE 0
        agentOrDefault == IF agent = Undefined THEN "system" ELSE agent
    IN  IF k = 0 \/ error = Undefined THEN T
        ELSE [T EXCEPT !.heap[k].errors =
                 Append(@, [ timestamp |-> at, message |-> error, agent |-> agentOrDefault,
                             phase |-> T.heap[k].phases[Len(T.heap[k].phases)].type ])]

recordError(T, taskId, error, agent, at) ==
    LET k == activeTasksGet(T, taskId)
        agentOrDefault == IF agent = Undefined THEN "system" ELSE agent
    IN  IF k = 0 \/ recordErrorThrows(T, taskId, error) THEN T
        ELSE LET task == T.heap[k]
                 errorRecord ==
                     [ timestamp |-> at, message |-> error, agent |-> agentOrDefault,
                       phase |-> IF Len(task.phases) > 0
                                 THEN task.phases[Len(task.phases)].type
                                 ELSE "unknown" ]
             IN  addTaskPhase([T EXCEPT !.heap[k].errors = Append(@, errorRecord)],
                              taskId, "error", "error", agentOrDefault, at)

\* getTaskStatus(taskId): the object, 0 for undefined
getTaskStatus(T, taskId) ==
    IF activeTasksGet(T, taskId) # 0 THEN activeTasksGet(T, taskId)
    ELSE IF \E i \in 1..Len(T.completedTasks) : T.heap[T.completedTasks[i]].id = taskId
    THEN T.completedTasks[Min({ i \in 1..Len(T.completedTasks) :
                                  T.heap[T.completedTasks[i]].id = taskId })]
    ELSE 0

cleanupOldTasks(T, at) ==
    LET oneWeekAgo == at - oneWeek
    IN  [T EXCEPT !.completedTasks =
                      SelectSeq(@, LAMBDA k : OrElse(T.heap[k].endTime, T.heap[k].createdAt)
                                                  > oneWeekAgo),
                  !.taskHistory = SelectSeq(@, LAMBDA h : h.completedAt > oneWeekAgo)]

\* --------------------------------------------- calls made to the tracker
\* what callers pass
TrackerIds == 1..MaxTrackerIds
PriorityInputs == {Undefined}
Phase(type, status, agent) == [type |-> type, status |-> status, agent |-> agent]
PhaseInputs == { Phase("task_execution", "info", "traffic"),
                 Phase("task_analysis", "info", Undefined) }
StatusInputs == {"running", "completed", "failed"}
ErrorInput(error, agent) == [error |-> error, agent |-> agent]
ErrorInputs == { ErrorInput("sensor offline", "traffic"),
                 ErrorInput("sensor offline", Undefined),
                 ErrorInput(Undefined, Undefined) }
SensorInput(sensorType, dataSize, processingTime) ==
    [sensorType |-> sensorType, dataSize |-> dataSize, processingTime |-> processingTime]
SensorInputs == { SensorInput("parking", Fraction(643, 1024), 5) }

Call(op, taskId, obj, threw, returned) ==
    [op |-> op, taskId |-> taskId, obj |-> obj, threw |-> threw, returned |-> returned]

\* the bounds of the model: the tracker records no more than MaxPhases phases
\* in all, and MaxSensorCalls sensor readings for one task
PhasesRecorded ==
    SumSeq([k \in 1..Len(taskTracker.heap) |-> Len(taskTracker.heap[k].phases)])
PhaseRoom == PhasesRecorded < MaxPhases
SensorRoom(taskId, sensorType) ==
    LET k == activeTasksGet(taskTracker, taskId)
    IN  IF k = 0 THEN TRUE
        ELSE LET used == taskTracker.heap[k].sensorDataUsed
             IN  IF sensorType \in DOMAIN used
                 THEN used[sensorType].calls < MaxSensorCalls
                 ELSE TRUE

callCreateTaskTracker(taskId, priority) ==
    /\ Len(taskTracker.heap) < MaxTrackerObjs
    /\ PhaseRoom
    /\ taskTracker' = createTaskTracker(taskTracker, taskId, priority, dateNow)
    /\ lastCall' = Call("createTaskTracker", taskId, Len(taskTracker.heap) + 1, FALSE, None)
    /\ UNCHANGED << schedulerVars, engineVars, dateNow, framework, systemData >>

callAddTaskPhase(taskId, in) ==
    /\ PhaseRoom
    /\ taskTracker' = addTaskPhase(taskTracker, taskId, in.type, in.status, in.agent, dateNow)
    /\ lastCall' = Call("addTaskPhase", taskId, activeTasksGet(taskTracker, taskId), FALSE, None)
    /\ UNCHANGED << schedulerVars, engineVars, dateNow, framework, systemData >>

callUpdateTaskStatus(taskId, status) ==
    /\ PhaseRoom
    /\ taskTracker' = updateTaskStatus(taskTracker, taskId, status, dateNow)
    /\ lastCall' = Call("updateTaskStatus", taskId, activeTasksGet(taskTracker, taskId),
                        FALSE, None)
    /\ UNCHANGED << schedulerVars, engineVars, dateNow, framework, systemData >>

callRecordSensorDataUsage(taskId, in) ==
    /\ SensorRoom(taskId, in.sensorType)
    /\ taskTracker' = recordSensorDataUsage(taskTracker, taskId, in.sensorType, in.dataSize,
                                            in.processingTime)
    /\ lastCall' = Call("recordSensorDataUsage", taskId, activeTasksGet(taskTracker, taskId),
                        FALSE, None)
    /\ UNCHANGED << schedulerVars, engineVars, dateNow, framework, systemData >>

callRecordError(taskId, in) ==
    /\ PhaseRoom
    /\ taskTracker' = recordError(taskTracker, taskId, in.error, in.agent, dateNow)
    /\ lastCall' = Call("recordError", taskId, activeTasksGet(taskTracker, taskId),
                        recordErrorThrows(taskTracker, taskId, in.error), None)
    /\ UNCHANGED << schedulerVars, engineVars, dateNow, framework, systemData >>

callCompleteTask(taskId) ==
    /\ taskTracker' = completeTask(taskTracker, taskId, dateNow)
    /\ lastCall' = Call("completeTask", taskId, activeTasksGet(taskTracker, taskId), FALSE,
                        completeTaskReturn(taskTracker, taskId, dateNow))
    /\ UNCHANGED << schedulerVars, engineVars, dateNow, framework, systemData >>

\* reportGenerator.generateTaskReport(task) on an archived task object k
callGenerateTaskReport(k) ==
    /\ k \in SeqToSet(taskTracker.completedTasks)
    /\ lastCall' = Call("generateTaskReport", taskTracker.heap[k].id, k, FALSE,
                        Some(generateTaskReport(taskTracker.heap[k], dateNow)))
    /\ UNCHANGED << schedulerVars, engineVars, taskTracker, dateNow, framework, systemData >>

\* the setInterval callback of startPerformanceMonitoring: cleanupOldTasks,
\* then analyzePerformancePatterns, which only logs
performanceMonitoring ==
    /\ taskTracker' = cleanupOldTasks(taskTracker, dateNow)
    /\ lastCall' = Call("cleanupOldTasks", 0, 0, FALSE, None)
    /\ UNCHANGED << schedulerVars, engineVars, dateNow, framework, systemData >>

\* Date.now() advances
DateTick ==
    /\ dateNow < MaxDate
    /\ dateNow' = dateNow + 1
    /\ UNCHANGED << schedulerVars, engineVars, taskTracker, lastCall, framework, systemData >>

\* a TaskTracker of its own: no scheduler is deployed next to it
NoDeployment == Deployment(50, 5, << >>)
TrackerInit ==
    /\ NewTaskScheduler(NoDeployment)
    /\ TrackerIdle
    /\ EngineIdle

TrackerNext ==
    \/ \E taskId \in TrackerIds, priority \in PriorityInputs :
           callCreateTaskTracker(taskId, priority)
    \/ \E taskId \in TrackerIds, in \in PhaseInputs : callAddTaskPhase(taskId, in)
    \/ \E taskId \in TrackerIds, status \in StatusInputs : callUpdateTaskStatus(taskId, status)
    \/ \E taskId \in TrackerIds, in \in SensorInputs : callRecordSensorDataUsage(taskId, in)
    \/ \E taskId \in TrackerIds, in \in ErrorInputs : callRecordError(taskId, in)
    \/ \E taskId \in TrackerIds : callCompleteTask(taskId)
    \/ \E k \in 1..MaxTrackerObjs : callGenerateTaskReport(k)
    \/ performanceMonitoring
    \/ DateTick

TrackerSpec == TrackerInit /\ [][TrackerNext]_vars

\* ------------------------------------------ ReportGenerator: system health
\* averageExecutionTime > 20000 (ms), the average being a fraction of date units
twentySeconds == 20000
LongerThanMs(avg, ms) == avg.num > (ms * avg.den) \div DateUnitMs

Max(a, b) == IF a >= b THEN a ELSE b

\* the penalty of assessSystemHealth for a success rate below 0.9
assessSystemHealth_lenient(sd) ==
    LET metrics == sd.performanceMetrics
        lowSuccess == metrics.totalTasks # 0
                      /\ 10 * metrics.successfulTasks < 9 * metrics.totalTasks
        healthScore == 100 - (IF lowSuccess THEN 20 ELSE 0)
    IN  [ score |-> Max(healthScore, 0),
          status |-> IF healthScore > 80 THEN "excellent"
                     ELSE IF healthScore > 60 THEN "good" ELSE "poor",
          issues |-> IF lowSuccess THEN << "success rate low" >> ELSE << "system normal" >> ]

\* successfulTasks / totalTasks and failedTasks / totalTasks are NaN or
\* Infinity when totalTasks is 0: NaN compares false, Infinity > 0.1 is true
assessSystemHealth(sd) ==
    LET metrics == sd.performanceMetrics
        highErrors == IF metrics.totalTasks = 0 THEN metrics.failedTasks > 0
                      ELSE 10 * metrics.failedTasks > metrics.totalTasks
        slow == LongerThanMs(metrics.averageExecutionTime, twentySeconds)
        lowSuccess == metrics.totalTasks # 0
                      /\ 10 * metrics.successfulTasks < 9 * metrics.totalTasks
        healthScore == 100 - (IF highErrors THEN 30 ELSE 0)
                           - (IF slow THEN 20 ELSE 0)
                           - (IF lowSuccess THEN 25 ELSE 0)
        issues == (IF highErrors THEN << "error rate high" >> ELSE << >>)
                  \o (IF slow THEN << "average execution time long" >> ELSE << >>)
                  \o (IF lowSuccess THEN << "success rate low" >> ELSE << >>)
    IN  [ score |-> Max(healthScore, 0),
          status |-> IF healthScore > 80 THEN "excellent"
                     ELSE IF healthScore > 60 THEN "good" ELSE "poor",
          issues |-> IF Len(issues) > 0 THEN issues ELSE << "system normal" >> ]

\* the systemData a report can be asked for: performanceMetrics as
\* updatePerformanceMetrics leaves them (no average before the first task)
\* and the number of active tasks
SystemData(active, total, successful, failed, avg) ==
    [ activeTasks |-> active,
      performanceMetrics |->
          [ NewPerformanceMetrics EXCEPT !.totalTasks = total,
                                         !.successfulTasks = successful,
                                         !.failedTasks = failed,
                                         !.averageExecutionTime = avg ] ]
SystemDataInputs ==
    { SystemData(active, total, successful, failed, avg) :
        active \in {0, 11},
        total \in 0..MaxTotalTasks,
        successful \in 0..MaxTotalTasks,
        failed \in 0..MaxTotalTasks,
        avg \in {Fraction(0, 1), Fraction(1, 1)} }

callAssessSystemHealth ==
    /\ lastCall' = Call("assessSystemHealth", 0, 0, FALSE, Some(assessSystemHealth(systemData)))
    /\ UNCHANGED << schedulerVars, engineVars, taskTracker, dateNow, framework, systemData >>

HealthInit ==
    /\ NewTaskScheduler(NoDeployment)
    /\ taskTracker = NewTaskTracker
    /\ dateNow = 1
    /\ lastCall = NoCall
    /\ framework = NewFramework
    /\ systemData \in SystemDataInputs
    /\ LET m == systemData.performanceMetrics
       IN  /\ m.successfulTasks + m.failedTasks <= m.totalTasks
           /\ m.totalTasks = 0 => m.averageExecutionTime = Fraction(0, 1)
    /\ EngineIdle

\* systemData.activeTasks.length > 10
manyActiveTasks == 10
generateSystemRecommendations(sd) ==
    LET health == assessSystemHealth(sd)
    IN  (IF health.score < 80
         THEN << [ priority |-> "high", category |-> "system_optimization",
                   actions |-> health.issues ] >>
         ELSE << >>)
        \o (IF sd.activeTasks > manyActiveTasks
            THEN << [ priority |-> "medium", category |-> "load_management",
                      actions |-> << "queue management", "scheduling algorithm" >> ] >>
            ELSE << >>)

callGenerateSystemRecommendations ==
    /\ lastCall' = Call("generateSystemRecommendations", 0, 0, FALSE,
                        Some(generateSystemRecommendations(systemData)))
    /\ UNCHANGED << schedulerVars, engineVars, taskTracker, dateNow, framework, systemData >>

HealthNext ==
    \/ callAssessSystemHealth
    \/ callGenerateSystemRecommendations

HealthSpec == HealthInit /\ [][HealthNext]_vars

\* ================================================ SmartCityAgentFramework
\* src/smart-city-agents.js.  processUserRequest is an async function: every
\* call is a process (framework.requests[r]) whose pc is the await it is
\* suspended at; the subtasks of executeTaskPlan run side by side, each with
\* a pc of its own.  The sensors and the agents are the environment: their
\* promises resolve or reject.

\* what callers pass: the priority of the request, and the agents its
\* description names (the subtasks analyzeTask plans)
RequestInput(priority, plan) == [priority |-> priority, plan |-> plan]
RequestInputs == { RequestInput("high", << "traffic" >>),
                   RequestInput("low", << "parking" >>),
                   RequestInput(Undefined, << "traffic", "weather" >>) }

Requests == 1..Len(framework.requests)
Subtask(at, startTime) == [pc |-> at, startTime |-> startTime]
Step(agent, status) == [agent |-> agent, status |-> status]

\* `task_${Date.now()}`
MsPerUnit == MaxMs + 1
generatedTaskId == dateNow * MsPerUnit + framework.ms

\* Date.now() in milliseconds: framework.ms milliseconds into the date unit
DateNowMs == dateNow * DateUnitMs + framework.ms

\* JSON.stringify(sensorData).length of what sensors.getData returns for the
\* dataRequirements of the subtask of an agent.  The sensors fill their data
\* from Math.random() (security also from Date.now()), and the length goes
\* with the digits of the numbers and the words chosen: from the shortest
\* (every Math.random() prints as one digit and picks the shorter word) to
\* the longest (24 characters for a Math.random(), 19 for congestionLevel,
\* two alerts with a Date.now() of 16 digits)
SensorDataLengths ==
    [ traffic |-> 2184..2480, weather |-> 176..203, parking |-> 638..645,
      security |-> 4571..5027 ]
\* the lengths the sensors are taken to give: those of the data when every
\* Math.random() returns 0.5, and for the parking lots also 0.1
SensorDataLengthInputs ==
    [ traffic |-> {2199}, weather |-> {179}, parking |-> {640, 643}, security |-> {4739} ]
\* JSON.stringify(sensorData).length / 1024
dataSizeKB(length) == Quotient(length, 1024)

\* Promise.all(promises) is settled: a subtask rejected, or all resolved
SomeRejected(req) == \E i \in 1..Len(req.sub) : req.sub[i].pc = "rejected"
AllResolved(req) == \A i \in 1..Len(req.sub) : req.sub[i].pc = "resolved"

\* Every await of processUserRequest and executeTaskPlan is on a promise of
\* an async function that awaits values that are there (analyzeTask,
\* sensors.getData, agent.executeTask, synthesizeResults): its continuation
\* runs when its turn comes among the continuations of the other requests,
\* in an order that goes with the number of awaits on each path.

\* processUserRequest up to "await this.masterAgent.analyzeTask(request)"
PlannedSubtasks == SumSeq([r \in Requests |-> Len(framework.requests[r].plan)])
\* createTaskTracker, then updateTaskStatus(taskId, 'running')
trackRequest(T, taskId, priority, at) ==
    updateTaskStatus(createTaskTracker(T, taskId, priority, at), taskId, "running", at)
\* a call suspended at its first await
RequestCall(taskId, plan) ==
    [ pc |-> "awaitAnalyze", taskId |-> taskId, plan |-> plan, sub |-> << >>,
      status |-> Undefined, steps |-> << >>, report |-> None ]

processUserRequest(in) ==
    /\ Len(framework.requests) < MaxRequests
    /\ PlannedSubtasks + Len(in.plan) <= MaxSubtasks
    /\ LET taskId == generatedTaskId
       IN  /\ taskTracker' = trackRequest(taskTracker, taskId, in.priority, dateNow)
           /\ framework' = [framework EXCEPT
                                !.requests = Append(@, RequestCall(taskId, in.plan))]
    /\ UNCHANGED << schedulerVars, engineVars, dateNow, lastCall, systemData >>

\* the sensor data collectAllData hands to checkAlertConditions:
\* congestionLevel in tenths, windSpeed in m/s, visibility in m
SensorData(congestionLevel, windSpeed, visibility) ==
    [ traffic |-> [congestionLevel |-> congestionLevel],
      weather |-> [windSpeed |-> windSpeed, visibility |-> visibility] ]
SensorDataInputs == { SensorData(5, 18, 5000), SensorData(9, 3, 800) }

\* the requests of checkAlertConditions, with the subtasks analyzeTask plans
\* for their descriptions
AlertRequests(sensorData) ==
    (IF sensorData.traffic.congestionLevel > 8
     THEN << RequestInput("high", << "traffic" >>) >> ELSE << >>)
    \o (IF sensorData.weather.windSpeed > 15 \/ sensorData.weather.visibility < 1000
        THEN << RequestInput("high", << "traffic", "weather", "security" >>) >>
        ELSE << >>)

\* checkAlertConditions: its processUserRequest calls run one after the
\* other, each up to its first await; elapsed is the number of milliseconds
\* Date.now() moves between two calls
checkAlertConditions(sensorData, elapsed) ==
    LET alerts == AlertRequests(sensorData)
        id1 == generatedTaskId
        id2 == generatedTaskId + elapsed
        planned == SumSeq([i \in 1..Len(alerts) |-> Len(alerts[i].plan)])
    IN  /\ Len(alerts) > 0
        /\ Len(framework.requests) + Len(alerts) <= MaxRequests
        /\ PlannedSubtasks + planned <= MaxAlertSubtasks
        /\ framework.ms + elapsed <= MaxMs
        /\ Len(alerts) = 1 => elapsed = 0
        /\ LET T1 == trackRequest(taskTracker, id1, alerts[1].priority, dateNow)
               F1 == Append(framework.requests, RequestCall(id1, alerts[1].plan))
           IN  IF Len(alerts) = 1
               THEN /\ taskTracker' = T1
                    /\ framework' = [framework EXCEPT !.requests = F1]
               ELSE /\ taskTracker' = trackRequest(T1, id2, alerts[2].priority, dateNow)
                    /\ framework' =
                          [framework EXCEPT
                              !.requests = Append(F1, RequestCall(id2, alerts[2].plan)),
                              !.ms = @ + elapsed]
        /\ UNCHANGED << schedulerVars, engineVars, dateNow, lastCall, systemData >>

\* the part of every subtask of executeTaskPlan before its first await
RECURSIVE dataAcquisition(_, _, _, _)
dataAcquisition(T, taskId, agentTypes, at) ==
    IF agentTypes = << >> THEN T
    ELSE dataAcquisition(
             addTaskPhase(T, taskId, "data_acquisition", "info", Head(agentTypes), at),
             taskId, Tail(agentTypes), at)

\* after analyzeTask: the taskData goes into activeTasksMap, then
\* executeTaskPlan starts every subtask and awaits Promise.all
taskAnalyzed(r) ==
    /\ framework.requests[r].pc = "awaitAnalyze"
    /\ LET req == framework.requests[r]
           T1 == addTaskPhase(taskTracker, req.taskId, "task_analysis", "info", "master",
                              dateNow)
       IN  /\ taskTracker' = dataAcquisition(T1, req.taskId, req.plan, dateNow)
           /\ framework' =
                 [framework EXCEPT
                     !.activeTasksMap = MapSet(@, req.taskId, r),
                     !.requests[r] =
                         [req EXCEPT
                             !.pc = "awaitPlan",
                             !.status = "coordinating",
                             !.steps = [i \in 1..Len(req.plan) |->
                                           Step(req.plan[i], "executing")],
                             !.sub = [i \in 1..Len(req.plan) |->
                                         Subtask("awaitData", DateNowMs)]]]
    /\ UNCHANGED << schedulerVars, engineVars, dateNow, lastCall, systemData >>

\* sensors.getData resolves for subtask i with data that JSON.stringify
\* gives the length
sensorDataReceived(r, i, length) ==
    /\ framework.requests[r].sub[i].pc = "awaitData"
    /\ LET req == framework.requests[r]
           agentType == req.plan[i]
           dataProcessingTime == DateNowMs - req.sub[i].startTime
       IN  /\ length \in SensorDataLengths[agentType]
           /\ LET T1 == recordSensorDataUsage(taskTracker, req.taskId, agentType,
                                              dataSizeKB(length), dataProcessingTime)
              IN  taskTracker' = addTaskPhase(T1, req.taskId, "task_execution", "info",
                                              agentType, dateNow)
    /\ framework' = [framework EXCEPT !.requests[r].sub[i].pc = "awaitAgent"]
    /\ UNCHANGED << schedulerVars, engineVars, dateNow, lastCall, systemData >>

\* agent.executeTask resolves for subtask i
subtaskCompleted(r, i) ==
    /\ framework.requests[r].sub[i].pc = "awaitAgent"
    /\ LET req == framework.requests[r]
           executing == { j \in 1..Len(req.steps) :
                            req.steps[j].agent = req.plan[i]
                            /\ req.steps[j].status = "executing" }
       IN  framework' =
             [framework EXCEPT
                 !.requests[r].sub[i].pc = "resolved",
                 !.requests[r].steps =
                     IF executing = {} THEN @
                     ELSE [@ EXCEPT ![Min(executing)].status = "completed"]]
    /\ UNCHANGED << schedulerVars, engineVars, taskTracker, dateNow, lastCall, systemData >>

\* sensors.getData or agent.executeTask rejects for subtask i: the catch of
\* the subtask records the error and throws it again
subtaskFailed(r, i) ==
    /\ framework.requests[r].sub[i].pc \in {"awaitData", "awaitAgent"}
    /\ LET req == framework.requests[r]
       IN  /\ taskTracker' = recordError(taskTracker, req.taskId, "agent failed", req.plan[i],
                                         dateNow)
           /\ framework' =
                 [framework EXCEPT
                     !.requests[r].sub[i].pc = "rejected",
                     !.requests[r].steps[Len(req.steps)].status = "failed"]
    /\ UNCHANGED << schedulerVars, engineVars, dateNow, lastCall, systemData >>

\* after "await Promise.all(promises)": executeTaskPlan returns the results,
\* or throws the error of the first subtask that failed, which nothing in
\* processUserRequest catches
executeTaskPlanSettled(r) ==
    /\ framework.requests[r].pc = "awaitPlan"
    /\ LET req == framework.requests[r]
       IN  IF SomeRejected(req)
           THEN framework' = [framework EXCEPT !.requests[r].pc = "rejected"]
           ELSE /\ AllResolved(req)
                /\ framework' = [framework EXCEPT !.requests[r].pc = "awaitSynthesize",
                                                  !.requests[r].status = "synthesizing"]
    /\ UNCHANGED << schedulerVars, engineVars, taskTracker, dateNow, lastCall, systemData >>

\* after "await this.masterAgent.synthesizeResults(results)"
resultsSynthesized(r) ==
    /\ framework.requests[r].pc = "awaitSynthesize"
    /\ framework' = [framework EXCEPT !.requests[r].pc = "awaitReport"]
    /\ UNCHANGED << schedulerVars, engineVars, taskTracker, dateNow, lastCall, systemData >>

\* after "await this.generateTaskReport(taskId, finalResult)": the tracker is
\* told, the report gets detailedAnalysis when completeTask returns a report
taskReported(r) ==
    /\ framework.requests[r].pc = "awaitReport"
    /\ LET req == framework.requests[r]
           tracked == MapHas(framework.activeTasksMap, req.taskId)
           T1 == updateTaskStatus(taskTracker, req.taskId, "completed", dateNow)
           detailedReport == IF tracked THEN completeTaskReturn(T1, req.taskId, dateNow)
                             ELSE None
           report == [taskId |-> req.taskId, detailedAnalysis |-> detailedReport]
       IN  /\ taskTracker' = IF tracked THEN completeTask(T1, req.taskId, dateNow)
                             ELSE taskTracker
           /\ framework' =
                 [framework EXCEPT
                     !.completedTasks = Append(@, report),
                     !.requests[r].pc = "resolved",
                     !.requests[r].report = Some(report)]
    /\ UNCHANGED << schedulerVars, engineVars, dateNow, lastCall, systemData >>

\* Date.now() moves to the next millisecond
MsTick ==
    /\ framework.ms < MaxMs
    /\ framework' = [framework EXCEPT !.ms = @ + 1]
    /\ UNCHANGED << schedulerVars, engineVars, taskTracker, dateNow, lastCall, systemData >>

RequestInit ==
    /\ NewTaskScheduler(NoDeployment)
    /\ TrackerIdle
    /\ EngineIdle

\* the continuations of the processUserRequest calls
RequestStep ==
    \/ \E r \in Requests : taskAnalyzed(r)
    \/ \E r \in Requests : \E i \in 1..Len(framework.requests[r].sub) :
           \E length \in SensorDataLengthInputs[framework.requests[r].plan[i]] :
               sensorDataReceived(r, i, length)
    \/ \E r \in Requests : \E i \in 1..Len(framework.requests[r].sub) :
           subtaskCompleted(r, i)
    \/ \E r \in Requests : \E i \in 1..Len(framework.requests[r].sub) :
           subtaskFailed(r, i)
    \/ \E r \in Requests : executeTaskPlanSettled(r)
    \/ \E r \in Requests : resultsSynthesized(r)
    \/ \E r \in Requests : taskReported(r)

\* requests of callers
RequestNext ==
    \/ \E in \in RequestInputs : processUserRequest(in)
    \/ RequestStep
    \/ performanceMonitoring
    \/ MsTick
    \/ DateTick

RequestSpec == RequestInit /\ [][RequestNext]_vars

\* requests of the real-time data collection (every 30 s, within one date
\* unit and one period of the performance monitoring), handled within the
\* millisecond the last of them starts in
AlertNext ==
    \/ \E sensorData \in SensorDataInputs : \E elapsed \in 0..MaxMs :
           checkAlertConditions(sensorData, elapsed)
    \/ RequestStep

AlertSpec == RequestInit /\ [][AlertNext]_vars

\* ======================================================= WorkflowEngine
\* src/enterprise-platform/app.js, class WorkflowEngine.  A workflow is a
\* graph of nodes and edges; executeWorkflow walks it depth first, one
\* executeNode call inside the other.  An execution is a process: its stack
\* holds, for runWorkflowExecution (node 0) and for every executeNode call
\* that has not returned, the nodes its for-of loop has still to execute.

NoNode == 0                          \* null / undefined
NoCondition == ""
\* an edge condition, evaluated by new Function('result', `return ${condition}`)
StatusIsPending == "result.status === 'pending'"

\* node.config.data of a node: an object, or none given
SomeData == "{}"
Node(id, type, agentId, data) == [id |-> id, type |-> type, agentId |-> agentId, data |-> data]
Edge(source, target, condition) ==
    [source |-> source, target |-> target, condition |-> condition]
WorkflowConfig(nodes, edges) == [nodes |-> nodes, edges |-> edges]

\* what callers pass to createWorkflow: a chain with a conditional edge, two
\* paths that join, a cycle, a workflow without start node, a node type the
\* engine has no method for, an edge to a node that does not exist, and an
\* agent task without config.data
WorkflowInputs ==
    { WorkflowConfig(<< Node(1, "start", 0, Undefined), Node(2, "agent_task", 1, SomeData),
                        Node(3, "end", 0, Undefined) >>,
                     << Edge(1, 2, NoCondition), Edge(2, 3, StatusIsPending) >>),
      WorkflowConfig(<< Node(1, "start", 0, Undefined), Node(2, "start", 0, Undefined),
                        Node(3, "end", 0, Undefined) >>,
                     << Edge(1, 2, NoCondition), Edge(1, 3, NoCondition),
                        Edge(2, 3, NoCondition) >>),
      WorkflowConfig(<< Node(1, "start", 0, Undefined), Node(2, "agent_task", 0, SomeData) >>,
                     << Edge(1, 2, NoCondition), Edge(2, 2, NoCondition) >>),
      WorkflowConfig(<< Node(1, "agent_task", 2, SomeData) >>, << >>),
      WorkflowConfig(<< Node(1, "start", 0, Undefined), Node(2, "condition", 0, Undefined) >>,
                     << Edge(1, 2, NoCondition) >>),
      WorkflowConfig(<< Node(1, "start", 0, Undefined) >>,
                     << Edge(1, 9, NoCondition), Edge(1, 1, StatusIsPending) >>),
      WorkflowConfig(<< Node(1, "start", 0, Undefined), Node(2, "agent_task", 1, Undefined),
                        Node(3, "end", 0, Undefined) >>,
                     << Edge(1, 2, NoCondition), Edge(2, 3, NoCondition) >>) }

\* window.platform.agents where the engine runs
EngineDeployments ==
    { Deployment(50, 5, << Agent("ready", 0, {}) >>),
      Deployment(50, 5, << Agent("ready", 1, {}), Agent("ready", 0, {}) >>),
      NoDeployment }

\* the results of nodes, by their status (undefined: createTask returned nothing)
ResultStarted   == "started"
ResultCompleted == "completed"
ResultPending   == "pending"
TaskResults == { ResultPending, Undefined }

Frame(node, pending) == [node |-> node, pending |-> pending]
Executions == 1..Len(workflowEngine.executions)

\* workflow.nodes.find(node => node.id === id), as the id of the node found
findNode(workflow, id) ==
    IF \E i \in 1..Len(workflow.nodes) : workflow.nodes[i].id = id THEN id ELSE NoNode
nodeOf(workflow, id) ==
    workflow.nodes[Min({ i \in 1..Len(workflow.nodes) : workflow.nodes[i].id = id })]

\* workflow.nodes.filter(node => node.type === 'start')
startNodesOf(workflow) ==
    LET starts == SelectSeq(workflow.nodes, LAMBDA node : node.type = "start")
    IN  [i \in 1..Len(starts) |-> starts[i].id]

\* a condition that throws (result undefined) counts as false
evaluateEdgeCondition(condition, result) ==
    IF condition = StatusIsPending THEN result = ResultPending ELSE FALSE

getNextNodes(workflow, currentNodeId, result) ==
    LET nextEdges == SelectSeq(workflow.edges, LAMBDA edge : edge.source = currentNodeId)
        validEdges == SelectSeq(nextEdges,
                          LAMBDA edge : IF edge.condition = NoCondition THEN TRUE
                                        ELSE evaluateEdgeCondition(edge.condition, result))
    IN  [i \in 1..Len(validEdges) |-> findNode(workflow, validEdges[i].target)]

\* the ready agents sorted by currentTasks.length (a stable sort), then the
\* id of the first: the first ready agent of least load, or none
selectOptimalAgent ==
    LET ready == { a \in 1..Len(agents) : agents[a].status = "ready" }
    IN  IF ready = {} THEN NoAgent
        ELSE Min({ a \in ready :
                     \A b \in ready : agents[a].load <= agents[b].load })

\* resolveVariables(node.config.data, ...) starts with
\* JSON.parse(JSON.stringify(data)), a SyntaxError when there is no data
resolveVariablesThrows(data) == data = Undefined

\* executeAgentTask before its await: it throws when the agent is not in
\* window.platform.agents, when window.platform has no generateTaskId, or
\* when resolveVariables throws
executeAgentTaskThrows(node) ==
    LET agentId == IF node.agentId # 0 THEN node.agentId ELSE selectOptimalAgent
    IN  \/ agentId \notin 1..Len(agents)
        \/ ~workflowEngine.generateTaskId
        \/ resolveVariablesThrows(node.data)

createWorkflow(workflowConfig) ==
    /\ Len(workflowEngine.workflows) < MaxWorkflows
    /\ workflowEngine' =
          [workflowEngine EXCEPT
              !.workflows = Append(@, [ nodes |-> workflowConfig.nodes,
                                        edges |-> workflowConfig.edges,
                                        inMap |-> TRUE ])]
    /\ UNCHANGED << schedulerVars, trackerVars >>

\* window.platform.workflowEngine.workflows.delete(workflowId)
deleteWorkflow(workflowId) ==
    /\ workflowEngine.workflows[workflowId].inMap
    /\ workflowEngine' = [workflowEngine EXCEPT !.workflows[workflowId].inMap = FALSE]
    /\ UNCHANGED << schedulerVars, trackerVars >>

\* executeWorkflow on a workflow that is in the map (on any other id it
\* throws before it changes anything), up to the first executeNode call
executeWorkflow(workflowId) ==
    /\ workflowEngine.workflows[workflowId].inMap
    /\ Len(workflowEngine.executions) < MaxExecutions
    /\ LET startNodes == startNodesOf(workflowEngine.workflows[workflowId])
           execution ==
               [ workflowId |-> workflowId, status |-> "running", currentNode |-> NoNode,
                 executedNodes |-> << >>, results |-> << >>, errors |-> << >>,
                 stack |-> << Frame(NoNode, startNodes) >>,
                 pc |-> IF startNodes = << >> THEN "throwing" ELSE "run",
                 threw |-> FALSE ]
       IN  workflowEngine' =
             [workflowEngine EXCEPT
                 !.executions = Append(@, execution),
                 !.executingWorkflows = Append(@, Len(workflowEngine.executions) + 1)]
    /\ UNCHANGED << schedulerVars, trackerVars >>

\* the catch of executeNode(node): the error is recorded and thrown again
caught(x, nodeId) ==
    [x EXCEPT !.errors = Append(@, [nodeId |-> nodeId]), !.pc = "throwing", !.threw = TRUE]

\* execution.results[node.id] = result, then the calls for the next nodes
withResult(x, workflow, nodeId, result) ==
    LET y == [x EXCEPT !.results = MapSet(@, nodeId, result)]
    IN  IF ~workflow.inMap THEN caught(y, nodeId)
        ELSE [y EXCEPT !.stack = Append(@, Frame(nodeId, getNextNodes(workflow, nodeId, result))),
                       !.pc = "run"]

\* the innermost for-of loop calls executeNode on its next node
executeNode(e) ==
    /\ workflowEngine.executions[e].pc = "run"
    /\ LET x == workflowEngine.executions[e]
           top == x.stack[Len(x.stack)]
           n == Head(top.pending)
           workflow == workflowEngine.workflows[x.workflowId]
           called == [x EXCEPT !.stack[Len(x.stack)].pending = Tail(@)]
           entered == [called EXCEPT !.currentNode = n, !.executedNodes = Append(@, n)]
       IN  /\ top.pending # << >>
           /\ IF n = NoNode
              THEN workflowEngine' =
                      [workflowEngine EXCEPT
                          !.executions[e] = [called EXCEPT !.pc = "throwing", !.threw = TRUE]]
              ELSE /\ Len(x.executedNodes) < MaxExecuted
                   /\ LET node == nodeOf(workflow, n)
                      IN  workflowEngine' =
                            [workflowEngine EXCEPT !.executions[e] =
                                CASE node.type = "start" ->
                                        withResult(entered, workflow, n, ResultStarted)
                                  [] node.type = "end" ->
                                        [entered EXCEPT
                                            !.results = MapSet(@, n, ResultCompleted)]
                                  [] node.type = "agent_task" ->
                                        [entered EXCEPT
                                            !.stack = Append(@, Frame(n, << >>)),
                                            !.pc = IF executeAgentTaskThrows(node)
                                                   THEN "awaitThrown" ELSE "awaitTask"]
                                  [] OTHER -> caught(entered, n)]
    /\ UNCHANGED << schedulerVars, trackerVars >>

\* window.platform.createTask resolves
createTaskResolved(e, result) ==
    /\ workflowEngine.executions[e].pc = "awaitTask"
    /\ LET x == workflowEngine.executions[e]
           n == x.stack[Len(x.stack)].node
           returned == [x EXCEPT !.stack = SubSeq(@, 1, Len(@) - 1)]
       IN  workflowEngine' =
             [workflowEngine EXCEPT !.executions[e] =
                 withResult(returned, workflowEngine.workflows[x.workflowId], n, result)]
    /\ UNCHANGED << schedulerVars, trackerVars >>

\* window.platform.createTask rejects
createTaskRejected(e) ==
    /\ workflowEngine.executions[e].pc = "awaitTask"
    /\ LET x == workflowEngine.executions[e]
           n == x.stack[Len(x.stack)].node
           returned == [x EXCEPT !.stack = SubSeq(@, 1, Len(@) - 1)]
       IN  workflowEngine' = [workflowEngine EXCEPT !.executions[e] = caught(returned, n)]
    /\ UNCHANGED << schedulerVars, trackerVars >>

\* "await this.executeAgentTask(execution, node)" on a call that threw: the
\* rejection reaches the catch of executeNode one turn after the call
executeAgentTaskRejected(e) ==
    /\ workflowEngine.executions[e].pc = "awaitThrown"
    /\ LET x == workflowEngine.executions[e]
           n == x.stack[Len(x.stack)].node
           returned == [x EXCEPT !.stack = SubSeq(@, 1, Len(@) - 1)]
       IN  workflowEngine' = [workflowEngine EXCEPT !.executions[e] = caught(returned, n)]
    /\ UNCHANGED << schedulerVars, trackerVars >>

\* an executeNode call has executed all its next nodes and returns
executeNodeReturned(e) ==
    /\ workflowEngine.executions[e].pc = "run"
    /\ LET x == workflowEngine.executions[e]
       IN  /\ Len(x.stack) > 1
           /\ x.stack[Len(x.stack)].pending = << >>
           /\ workflowEngine' =
                 [workflowEngine EXCEPT !.executions[e].stack = SubSeq(@, 1, Len(@) - 1)]
    /\ UNCHANGED << schedulerVars, trackerVars >>

\* this.workflowHistory.push(execution); this.executingWorkflows.delete(...)
finally(engine, e) ==
    [engine EXCEPT
        !.workflowHistory = Append(@, e),
        !.executingWorkflows = SelectSeq(@, LAMBDA other : other # e)]

\* runWorkflowExecution has returned
executionCompleted(e) ==
    /\ workflowEngine.executions[e].pc = "run"
    /\ LET x == workflowEngine.executions[e]
       IN  /\ Len(x.stack) = 1
           /\ x.stack[1].pending = << >>
           /\ workflowEngine' =
                 finally([workflowEngine EXCEPT
                             !.executions[e] = [x EXCEPT !.status = "completed",
                                                         !.stack = << >>,
                                                         !.pc = "ended"]], e)
    /\ UNCHANGED << schedulerVars, trackerVars >>

\* "await this.executeNode(execution, nextNode)" on a call that threw: the
\* catch of the calling executeNode records the error and throws it again
executeNodeRejected(e) ==
    /\ workflowEngine.executions[e].pc = "throwing"
    /\ LET x == workflowEngine.executions[e]
       IN  /\ Len(x.stack) > 1
           /\ workflowEngine' =
                 [workflowEngine EXCEPT !.executions[e] =
                     [x EXCEPT !.errors = Append(@, [nodeId |-> x.stack[Len(x.stack)].node]),
                               !.stack = SubSeq(@, 1, Len(@) - 1)]]
    /\ UNCHANGED << schedulerVars, trackerVars >>

\* an execution that loses the error
executionFailed_swallowed(e) ==
    /\ workflowEngine.executions[e].pc = "throwing"
    /\ LET x == workflowEngine.executions[e]
       IN  Len(x.stack) = 1 /\ workflowEngine' =
             finally([workflowEngine EXCEPT
                         !.executions[e] = [x EXCEPT !.status = "completed",
                                                     !.stack = << >>,
                                                     !.pc = "ended"]], e)
    /\ UNCHANGED << schedulerVars, trackerVars >>

\* runWorkflowExecution threw (no start node, or an executeNode call on a
\* start node threw): the catch of executeWorkflow, then its finally
executionFailed(e) ==
    /\ workflowEngine.executions[e].pc = "throwing"
    /\ LET x == workflowEngine.executions[e]
       IN  Len(x.stack) = 1 /\ workflowEngine' =
             finally([workflowEngine EXCEPT
                         !.executions[e] =
                             [x EXCEPT !.status = "failed",
                                       !.errors = Append(@, [node |-> x.currentNode]),
                                       !.stack = << >>,
                                       !.pc = "ended"]], e)
    /\ UNCHANGED << schedulerVars, trackerVars >>

WorkflowInit ==
    /\ \E d \in EngineDeployments : NewTaskScheduler(d)
    /\ TrackerIdle
    /\ \E generateTaskId \in BOOLEAN : workflowEngine = NewWorkflowEngine(generateTaskId)

WorkflowNext ==
    \/ \E workflowConfig \in WorkflowInputs : createWorkflow(workflowConfig)
    \/ \E workflowId \in 1..Len(workflowEngine.workflows) : deleteWorkflow(workflowId)
    \/ \E workflowId \in 1..Len(workflowEngine.workflows) : executeWorkflow(workflowId)
    \/ \E e \in Executions : executeNode(e)
    \/ \E e \in Executions : \E result \in TaskResults : createTaskResolved(e, result)
    \/ \E e \in Executions : createTaskRejected(e)
    \/ \E e \in Executions : executeAgentTaskRejected(e)
    \/ \E e \in Executions : executeNodeReturned(e)
    \/ \E e \in Executions : executeNodeRejected(e)
    \/ \E e \in Executions : executionCompleted(e)
    \/ \E e \in Executions : executionFailed(e)

WorkflowSpec == WorkflowInit /\ [][WorkflowNext]_vars

\* ================================================================ claims
Objs == 1..Len(heap)
InSeq(k, s) == \E i \in 1..Len(s) : s[i] = k
Queued(k) == \E q \in QueueNames : InSeq(k, queues[q])
InRunning(k) == \E i \in 1..Len(runningTasks) : runningTasks[i][2] = k
\* position of object k in dispatchLog, 0 when executeTask never took it
DispatchPos(k) == IF InSeq(k, dispatchLog)
                  THEN CHOOSE i \in 1..Len(dispatchLog) : dispatchLog[i] = k
                  ELSE 0
\* how often executeTask took the task of id i
Dispatches(i) == Cardinality({ n \in 1..Len(dispatchLog) : heap[dispatchLog[n]].id = i })
\* handleTaskFailure has ended the execution of object k
ExecutionFailed(k) == heap[k].status \in {"failed", "retrying"} /\ heap[k].attempts >= 1
\* object k is the one the caller's scheduleTask made (not a retry copy)
Original(k) == \A j \in 1..(k - 1) : heap[j].id # heap[k].id
\* rank of the queue of object k among the levels the claims name, highest
\* first; 0 for any other queue
Level(k) == LET name == QueueOf(heap[k].priority)
            IN  CASE name = "critical" -> 1
                  [] name = "high"     -> 2
                  [] name = "medium"   -> 3
                  [] name = "low"      -> 4
                  [] OTHER             -> 0

\* C1: a task with maxAttempts = 3 whose every execution fails is dispatched
\* exactly 3 times: it is never dispatched a 4th time, and once its third
\* execution has failed it is in failedTasks with status 'failed' and
\* attempts = 3.
C1_Original ==
    \A i \in 1..(nextId - 1) :
        LET mine == { k \in Objs : heap[k].id = i }
        IN  (\A k \in mine : heap[k].maxAttempts = 3) =>
              /\ Dispatches(i) <= 3
              /\ ( /\ Dispatches(i) = 3
                   /\ now <= timeout      \* no execution can have timed out
                   /\ \A k \in mine : ExecutionFailed(k) /\ heap[k].assignedAgent # NoAgent )
                 => \E k \in mine : /\ InSeq(k, failedTasks)
                                    /\ heap[k].status = "failed"
                                    /\ heap[k].attempts = 3

\* C2: attempts <= maxAttempts for every task object in every state, and for
\* a task in its final state (in completedTasks or failedTasks)
\* attempts = maxAttempts exactly when its status is 'failed'.
C2_Original ==
    \A k \in Objs :
        /\ heap[k].attempts <= heap[k].maxAttempts
        /\ (InSeq(k, completedTasks) \/ InSeq(k, failedTasks)) =>
              ((heap[k].attempts = heap[k].maxAttempts) <=> (heap[k].status = "failed"))

\* C3: the size of runningTasks, and the number of task objects of status
\* 'running', never exceed schedulerConfig.maxConcurrentTasks.
C3_RunningBounded ==
    /\ Len(runningTasks) <= schedulerConfig.maxConcurrentTasks
    /\ Cardinality({ k \in Objs : heap[k].status = "running" })
          <= schedulerConfig.maxConcurrentTasks

\* the size of runningTasks alone (the test of canExecuteMoreTasks) does stay
\* within the limit
C3_MapOnly == Len(runningTasks) <= schedulerConfig.maxConcurrentTasks

\* C4: when no worker qualifies for the task executeTask popped, the task is
\* back at the head of its queue with status 'queued', its attempts are not
\* incremented and it is not put in failedTasks.
NoWorkerStep(l) ==
    pc[l] = "awaitSelect" /\ cur[l].agent = NoAgent /\ pc'[l] # "awaitSelect"

C4_Original ==
    [][ \A l \in Loops : NoWorkerStep(l) =>
          LET t == cur[l].task
              q == QueueOf(heap[t].priority)
          IN  /\ heap'[t].status = "queued"
              /\ Len(queues'[q]) > 0 /\ Head(queues'[q]) = t
              /\ heap'[t].attempts = heap[t].attempts
              /\ ~InSeq(t, failedTasks') ]_vars

\* C5: a task of a higher polled priority and a task of a lower one (high and
\* low in particular) that were both queued before the first dispatch tick:
\* the lower one is not moved to 'running' before the higher one.
QueuedBeforeFirstTick(k) == k <= firstTickObjs

C5_PriorityOrder ==
    \A a, b \in Objs :
        ( /\ QueuedBeforeFirstTick(a) /\ QueuedBeforeFirstTick(b)
          /\ Level(a) # 0 /\ Level(a) < Level(b)
          /\ DispatchPos(b) # 0 )
        => (DispatchPos(a) # 0 /\ DispatchPos(a) < DispatchPos(b))

C5_Witness ==
    \E a, b \in Objs :
        /\ QueuedBeforeFirstTick(a) /\ QueuedBeforeFirstTick(b)
        /\ QueueOf(heap[a].priority) = "high" /\ QueueOf(heap[b].priority) = "low"
        /\ b < a
        /\ DispatchPos(a) # 0 /\ DispatchPos(a) < DispatchPos(b)

\* C6: two tasks of the same priority, neither of which has failed yet (the
\* objects the callers' scheduleTask made): the one submitted first is moved
\* to 'running' first.
C6_FifoWithinLevel ==
    \A a, b \in Objs :
        ( /\ Original(a) /\ Original(b) /\ a < b
          /\ QueueOf(heap[a].priority) = QueueOf(heap[b].priority)
          /\ DispatchPos(b) # 0 )
        => (DispatchPos(a) # 0 /\ DispatchPos(a) < DispatchPos(b))

C6_Witness ==
    \E a, b \in Objs :
        /\ Original(a) /\ Original(b) /\ a < b
        /\ QueueOf(heap[a].priority) = QueueOf(heap[b].priority)
        /\ DispatchPos(a) # 0 /\ DispatchPos(a) < DispatchPos(b)

\* C7: while the scheduler is running, a task that has been 'running' for
\* longer than the timeout is eventually taken out of runningTasks by the
\* timeout check (or by its worker), because the dispatch loop keeps ticking
\* while the task runs.
Overdue(k) ==
    /\ k \in Objs
    /\ InRunning(k)
    /\ heap[k].status = "running"
    /\ TimedOut(k, now)

C7_Original ==
    \A k \in 1..MaxObjs : [](Overdue(k) => <>(~isRunning \/ ~Overdue(k)))

\* C8: at most one scheduleLoop is active at a time.
ActiveLoops == { l \in Loops : pc[l] # "idle" }
C8_Original == Cardinality(ActiveLoops) <= 1

\* C9: the number of running tasks assigned to one worker never exceeds
\* schedulerConfig.maxTasksPerAgent.
RunningOn(a) == { l \in Loops : /\ pc[l] = "awaitRun"
                                /\ cur[l].agent = a
                                /\ InRunning(cur[l].task)
                                /\ heap[cur[l].task].status = "running" }
C9_Original ==
    \A a \in 1..Len(agents) : Cardinality(RunningOn(a)) <= schedulerConfig.maxTasksPerAgent

\* C10: a task that declares requiredCapabilities is only assigned to a worker
\* that has them all, and selectAgent returns no worker when no ready worker
\* with capacity has them all.
Qualifies(a, task) ==
    /\ agents[a].status = "ready"
    /\ agents[a].load < schedulerConfig.maxTasksPerAgent
    /\ task.requiredCapabilities.caps \subseteq agents[a].capabilities
C10_Original ==
    \A l \in Loops :
        LET task == heap[cur[l].task]
        IN  (pc[l] \in {"awaitSelect", "awaitRun"} /\ task.requiredCapabilities.declared) =>
              IF \E a \in 1..Len(agents) : Qualifies(a, task)
              THEN cur[l].agent # NoAgent /\ Qualifies(cur[l].agent, task)
              ELSE cur[l].agent = NoAgent

\* C11: a task scheduled with a priority that is none of critical, high,
\* medium, low (or with no priority) gets status 'queued' and waits in the
\* 'medium' queue, a queue the dispatch loop polls.
PolledLevels == {"critical", "high", "medium", "low"}
C11_Original ==
    \A k \in Objs :
        (heap[k].priority \notin PolledLevels /\ heap[k].status = "queued")
            => InSeq(k, queues["medium"])

\* C18: the status of a task object is one of queued, running, retrying,
\* completed, failed; it starts as 'queued' and only moves queued -> running,
\* running -> retrying, retrying -> running, running -> completed and
\* running -> failed; 'completed' and 'failed' are never left.
StatusValues == {"queued", "running", "retrying", "completed", "failed"}
StatusMoves == { <<"queued", "running">>, <<"running", "retrying">>,
                 <<"retrying", "running">>, <<"running", "completed">>,
                 <<"running", "failed">> }
C18_Original ==
    [][ /\ \A k \in 1..Len(heap') : heap'[k].status \in StatusValues
        /\ \A k \in Objs :
              \/ heap'[k].status = heap[k].status
              \/ <<heap[k].status, heap'[k].status>> \in StatusMoves ]_vars

\* C20: once the startTime of a task object is set it is never changed, by
\* no later transition, a dispatch after a retry included.
C20_Original ==
    [][ \A k \in Objs :
          heap[k].startTime # NoTime => heap'[k].startTime = heap[k].startTime ]_vars

\* ------------------------------------------------- TaskTracker claims
TrackerObjs == 1..Len(taskTracker.heap)
\* object k is in the completed archive
Archived(k) == k \in SeqToSet(taskTracker.completedTasks)
\* object k is in the active map
Active(k) == \E i \in 1..Len(taskTracker.activeTasks) : taskTracker.activeTasks[i][2] = k
\* the task id was finalized: it is in the archive and not in the active map
Finalized(taskId) ==
    /\ activeTasksGet(taskTracker, taskId) = 0
    /\ \E k \in TrackerObjs : Archived(k) /\ taskTracker.heap[k].id = taskId
\* how often object k is in the archive after the step
ArchiveEntriesAfter(k) ==
    Cardinality({ i \in 1..Len(taskTracker'.completedTasks) :
                     taskTracker'.completedTasks[i] = k })

\* C12: completeTask(taskId) on a task that is already finalized leaves
\* completedTasks, taskHistory and performanceMetrics as they are, returns
\* undefined and does not throw; no task object is in the archive twice.
C12_CompleteTaskIdempotent ==
    [][ /\ \A taskId \in TrackerIds :
              (Finalized(taskId) /\ callCompleteTask(taskId)) =>
                  /\ taskTracker'.completedTasks = taskTracker.completedTasks
                  /\ taskTracker'.taskHistory = taskTracker.taskHistory
                  /\ taskTracker'.performanceMetrics = taskTracker.performanceMetrics
                  /\ ~lastCall'.threw
                  /\ lastCall'.returned = None
        /\ \A k \in 1..Len(taskTracker'.heap) : ArchiveEntriesAfter(k) <= 1 ]_vars

C12_Witness ==
    /\ lastCall.op = "completeTask"
    /\ lastCall.obj = 0
    /\ Finalized(lastCall.taskId)
    /\ Cardinality({ i \in 1..Len(taskTracker.completedTasks) :
                        taskTracker.heap[taskTracker.completedTasks[i]].id = lastCall.taskId }) = 1
    /\ taskTracker.performanceMetrics.totalTasks = 1

\* C13: the phases of every task object createTaskTracker made are never
\* empty, the first one has type 'initialization', and no step of the
\* tracker (addTaskPhase, updateTaskStatus, recordError,
\* recordSensorDataUsage, completeTask, cleanupOldTasks) shortens them.
C13_PhasesGrow ==
    [][ \A k \in 1..Len(taskTracker'.heap) :
          LET after == taskTracker'.heap[k].phases
          IN  /\ Len(after) > 0
              /\ after[1].type = "initialization"
              /\ k \in TrackerObjs =>
                    /\ Len(after) >= Len(taskTracker.heap[k].phases)
                    /\ SubSeq(after, 1, Len(taskTracker.heap[k].phases))
                          = taskTracker.heap[k].phases ]_vars

C13_Witness ==
    \E k \in TrackerObjs :
        /\ Len(taskTracker.heap[k].phases) = 3
        /\ taskTracker.heap[k].phases[1].type = "initialization"
        /\ taskTracker.heap[k].phases[2].type = "error"
        /\ taskTracker.heap[k].phases[3].type = "status_change"
        /\ ~Archived(k) /\ ~Active(k)
        /\ lastCall.op = "cleanupOldTasks"

\* C14: addTaskPhase, recordSensorDataUsage, recordError and updateTaskStatus
\* called with a task id that has no active task (unknown, or finalized
\* already) do not throw and leave the whole tracker as it is.
C14_UnknownTaskIgnored ==
    [][ \A taskId \in TrackerIds :
          ( /\ activeTasksGet(taskTracker, taskId) = 0
            /\ \/ \E in \in PhaseInputs : callAddTaskPhase(taskId, in)
               \/ \E in \in SensorInputs : callRecordSensorDataUsage(taskId, in)
               \/ \E in \in ErrorInputs : callRecordError(taskId, in)
               \/ \E status \in StatusInputs : callUpdateTaskStatus(taskId, status) )
          => (taskTracker' = taskTracker /\ ~lastCall'.threw) ]_vars

C14_Witness ==
    /\ lastCall.op = "recordError"
    /\ lastCall.obj = 0
    /\ ~lastCall.threw
    /\ Finalized(lastCall.taskId)
    /\ \E k \in TrackerObjs : Archived(k) /\ taskTracker.heap[k].id = lastCall.taskId
                              /\ taskTracker.heap[k].errors = << >>

\* C16: two calls of generateTaskReport on the same archived task object,
\* with no call to the tracker between them, return the same report, at
\* whatever times they are made, and leave the tracker as it is.
C16_Original ==
    [][ \A k \in TrackerObjs :
          ( /\ lastCall.op = "generateTaskReport" /\ lastCall.obj = k
            /\ callGenerateTaskReport(k) )
          => (lastCall'.returned = lastCall.returned /\ taskTracker' = taskTracker) ]_vars

\* C19: every task object in completedTasks has status 'completed' or
\* 'failed', every task object in activeTasks has another status, and no
\* step changes a task object that is in completedTasks.
TerminalStatus == {"completed", "failed"}
C19_Original ==
    [][ /\ \A k \in 1..Len(taskTracker'.heap) :
              /\ k \in SeqToSet(taskTracker'.completedTasks)
                    => taskTracker'.heap[k].status \in TerminalStatus
              /\ (\E i \in 1..Len(taskTracker'.activeTasks) :
                      taskTracker'.activeTasks[i][2] = k)
                    => taskTracker'.heap[k].status \notin TerminalStatus
        /\ \A k \in TrackerObjs :
              Archived(k) => taskTracker'.heap[k] = taskTracker.heap[k] ]_vars

\* C17: the score assessSystemHealth returns is 100 when totalTasks = 0, and
\* at most 75 when successfulTasks / totalTasks is below 90%.
C17_HealthScore ==
    lastCall.op = "assessSystemHealth" =>
        LET m == systemData.performanceMetrics
            score == lastCall.returned[1].score
        IN  /\ m.totalTasks = 0 => score = 100
            /\ (m.totalTasks > 0 /\ 10 * m.successfulTasks < 9 * m.totalTasks) => score <= 75

C17_Witness ==
    /\ lastCall.op = "assessSystemHealth"
    /\ systemData.performanceMetrics.totalTasks = 10
    /\ systemData.performanceMetrics.successfulTasks = 8
    /\ systemData.performanceMetrics.failedTasks = 1
    /\ systemData.performanceMetrics.averageExecutionTime = Fraction(0, 1)
    /\ lastCall.returned[1].score = 75

\* C15: when a sub-agent has failed and the processUserRequest call has
\* ended with that error, all its subtasks being over, the tracked task has
\* status 'failed', is out of the active map and in the completed archive,
\* and getTaskStatus returns it with errors that are not empty.
RequestFailed(r) ==
    /\ framework.requests[r].pc = "rejected"
    /\ \A i \in 1..Len(framework.requests[r].sub) :
           framework.requests[r].sub[i].pc \in {"resolved", "rejected"}
C15_Original ==
    \A r \in Requests :
        RequestFailed(r) =>
            LET k == getTaskStatus(taskTracker, framework.requests[r].taskId)
            IN  /\ k # 0
                /\ taskTracker.heap[k].status = "failed"
                /\ ~Active(k)
                /\ Archived(k)
                /\ taskTracker.heap[k].errors # << >>

\* C21: whenever assessSystemHealth applies a penalty to the systemData (its
\* score is below 100), generateSystemRecommendations returns a
\* system_optimization recommendation whose actions are the issues found.
C21_Original ==
    lastCall.op = "generateSystemRecommendations" =>
        LET health == assessSystemHealth(systemData)
            recommendations == lastCall.returned[1]
        IN  health.score < 100 =>
                \E i \in 1..Len(recommendations) :
                    /\ recommendations[i].category = "system_optimization"
                    /\ recommendations[i].actions = health.issues

\* C22: while at most one scheduleLoop is active, runningTasks holds at most
\* one task, whatever maxConcurrentTasks is: the loop is suspended in
\* executeTask until the task it took has ended.
C22_OneLoopOneTask ==
    Cardinality(ActiveLoops) <= 1 => Len(runningTasks) <= 1

C22_Witness ==
    /\ Cardinality(ActiveLoops) = 1
    /\ schedulerConfig.maxConcurrentTasks = 2
    /\ Len(runningTasks) = 1
    /\ canExecuteMoreTasks
    /\ \E l \in Loops : pc[l] = "awaitRun"
    /\ \E q \in PolledLevels : Len(queues[q]) > 0

\* C23: while the scheduler is stopped (after stop(), before a later
\* start()), no task is taken by executeTask and no retry timer puts a task
\* in a queue.
RetryTimerFired ==
    \E t \in Objs : CopiesIn(t, retryTimers') < CopiesIn(t, retryTimers)
C23_Original ==
    [][ (~isRunning /\ ~isRunning') =>
            /\ dispatchLog' = dispatchLog
            /\ ~RetryTimerFired ]_vars

\* C24: whenever executeTask takes a task of level L, the queues of all
\* levels higher than L are empty at that moment.
C24_Original ==
    [][ dispatchLog' # dispatchLog =>
          LET t == dispatchLog'[Len(dispatchLog')]
          IN  \A q \in 1..Len(priorityOrder) :
                  q < Level(t) => queues[priorityOrder[q]] = << >> ]_vars

\* C25: every task scheduleTask accepted is in exactly one of a queue,
\* runningTasks, a pending retry timer, completedTasks and failedTasks, and
\* its id is at most once in completedTasks and failedTasks together.
CountId(s, i) == Cardinality({ n \in 1..Len(s) : heap[s[n]].id = i })
PlacesOf(i) ==
    SumFun([q \in QueueNames |-> CountId(queues[q], i)], QueueNames)
    + Cardinality({ n \in 1..Len(runningTasks) : runningTasks[n][1] = i })
    + SumFun([k \in Objs |-> IF heap[k].id = i THEN CopiesIn(k, retryTimers) ELSE 0], Objs)
    + CountId(completedTasks, i)
    + CountId(failedTasks, i)
C25_Original ==
    \A i \in 1..(nextId - 1) :
        /\ PlacesOf(i) = 1
        /\ CountId(completedTasks, i) + CountId(failedTasks, i) <= 1

\* C26: two processUserRequest calls never get the same task id (so that
\* createTaskTracker never replaces the record of a request in progress), and
\* no two entries of a completedTasks list have the same id.
C26_Original ==
    /\ \A r1, r2 \in Requests :
           r1 # r2 => framework.requests[r1].taskId # framework.requests[r2].taskId
    /\ \A a, b \in 1..Len(framework.completedTasks) :
           a # b => framework.completedTasks[a].taskId # framework.completedTasks[b].taskId
    /\ \A a, b \in 1..Len(taskTracker.completedTasks) :
           a # b => taskTracker.heap[taskTracker.completedTasks[a]].id
                        # taskTracker.heap[taskTracker.completedTasks[b]].id

\* C27: the report a processUserRequest call returns on its success path
\* has detailedAnalysis, the task report completeTask(taskId) returned.
C27_Original ==
    \A r \in Requests :
        framework.requests[r].pc = "resolved" =>
            LET report == framework.requests[r].report[1]
            IN  /\ report.detailedAnalysis # None
                /\ report.detailedAnalysis[1].taskId = framework.requests[r].taskId

\* C28: in every state of the TaskTracker,
\* performanceMetrics.totalTasks = successfulTasks + failedTasks.
C28_Original ==
    LET m == taskTracker.performanceMetrics
    IN  m.totalTasks = m.successfulTasks + m.failedTasks

\* ---------------------------------------------- WorkflowEngine claims
Ended(e) == workflowEngine.executions[e].pc = "ended"
HistoryEntries(e) ==
    Cardinality({ i \in 1..Len(workflowEngine.workflowHistory) :
                     workflowEngine.workflowHistory[i] = e })
Executing(e) == e \in SeqToSet(workflowEngine.executingWorkflows)
NoStartNode(e) ==
    \A i \in 1..Len(workflowEngine.workflows[workflowEngine.executions[e].workflowId].nodes) :
        workflowEngine.workflows[workflowEngine.executions[e].workflowId].nodes[i].type
            # "start"

\* C29: an execution of an existing workflow is 'running', in
\* executingWorkflows and not in workflowHistory until executeWorkflow ends
\* it; once ended its status is 'completed' or 'failed', it is in
\* workflowHistory exactly once and no longer in executingWorkflows, and the
\* status is 'failed' exactly when an executeNode call threw or the workflow
\* has no start node.
C29_ExecutionOutcome ==
    \A e \in Executions :
        LET x == workflowEngine.executions[e]
        IN  IF Ended(e)
            THEN /\ x.status \in {"completed", "failed"}
                 /\ HistoryEntries(e) = 1
                 /\ ~Executing(e)
                 /\ (x.status = "failed") <=> (x.threw \/ NoStartNode(e))
            ELSE /\ x.status = "running"
                 /\ HistoryEntries(e) = 0
                 /\ Executing(e)

C29_Witness ==
    \E e1, e2 \in Executions :
        /\ Ended(e1) /\ workflowEngine.executions[e1].status = "failed"
        /\ workflowEngine.executions[e1].threw
        /\ Len(workflowEngine.executions[e1].errors) >= 3
        /\ Ended(e2) /\ workflowEngine.executions[e2].status = "completed"
        /\ Len(workflowEngine.executions[e2].executedNodes) >= 3

\* C30: no node id is twice in execution.executedNodes.
C30_Original ==
    \A e \in Executions :
        LET executedNodes == workflowEngine.executions[e].executedNodes
        IN  \A i, j \in 1..Len(executedNodes) :
                i # j => executedNodes[i] # executedNodes[j]

====
